---- MODULE Spec2Model ----
(***************************************************************************)
(* Request-dispatch core of type-mvc: ControllerRoute (route matching,     *)
(* dispatch, CORS preflight, parameter binding).                           *)
(*                                                                         *)
(* JavaScript strings are sequences of one-character strings, so that      *)
(* indexOf / substr / replace are computed as the code computes them.      *)
(***************************************************************************)
EXTENDS Integers, Sequences, FiniteSets, TLC

VARIABLES
    thisUrl,     \* BaseRoute.url: the mount path of the route node
    methodMaps,  \* getMethodMetadata(decorator, controller): [decorator -> Seq(Seq(RouteMetadata))]
    registry,    \* other controller metadata: Authorization, Cors, parameter types, Field
    container,   \* the IContainer as the route sees it: capabilities, configuration, instances
    ctx,         \* the request/response context
    decorator,   \* local of navigating / invokeOption: the selected bucket
    meta,        \* local of invoke / invokeOption: the matched RouteMetadata
    pc,          \* position of the request in its handler
    calls,       \* how often each collaborator has been called for this request
    outcome,     \* the promise returned to the caller: pending / resolved / rejected
    bound,       \* the argument lists produced by createProvider, in call order
    fault,       \* the fault that navigating's catch block received, if any
    response,    \* local of invoke: what the handler returned
    headersSet,  \* local of invokeOption: the headers it has set through set()
    rejection,   \* the error the returned promise rejected with, if any
    orders,      \* MiddlewareChain.orders: the chain of OrderMiddleware entries
    chainOp,     \* the last call made on the MiddlewareChain, with what it was given
    builder,     \* the WebHostBuilder: its fields, its app, and how its calls ended
    pair         \* two requests in flight on one ControllerRoute: the locals of each

vars == <<thisUrl, methodMaps, registry, container, ctx, decorator, meta, pc, calls, outcome,
          bound, fault, response, headersSet, rejection, orders, chainOp, builder, pair>>

(***************************************************************************)
(* Bounds                                                                  *)
(***************************************************************************)
MaxEntries == 3      \* route entries declared in one bucket
MaxBinds == 2        \* how often the same request is bound

(***************************************************************************)
(* JavaScript string primitives                                            *)
(***************************************************************************)
Min(S) == CHOOSE x \in S : \A y \in S : x <= y

\* String.prototype.indexOf: 0-based index of the first occurrence, or -1
IndexOf(s, sub) ==
    LET hits == {i \in 0..(Len(s) - Len(sub)) : SubSeq(s, i + 1, i + Len(sub)) = sub}
    IN  IF hits = {} THEN -1 ELSE Min(hits)

\* String.prototype.substr(start, length), start >= 0
Substr(s, start, length) ==
    IF length <= 0 THEN <<>>
    ELSE SubSeq(s, start + 1, IF start + length > Len(s) THEN Len(s) ELSE start + length)

\* String.prototype.replace(pattern, '') with a string pattern: first occurrence only
ReplaceFirst(s, pat) ==
    LET i == IndexOf(s, pat)
    IN  IF i = -1 THEN s
        ELSE SubSeq(s, 1, i) \o SubSeq(s, i + Len(pat) + 1, Len(s))

Digits == <<"0", "1", "2", "3", "4", "5", "6", "7", "8", "9">>
IsDigit(c) == \E d \in 1..10 : Digits[d] = c
DigitVal(c) == (CHOOSE d \in 1..10 : Digits[d] = c) - 1

RECURSIVE DecimalValue(_)
DecimalValue(s) ==
    IF s = <<>> THEN 0 ELSE 10 * DecimalValue(SubSeq(s, 1, Len(s) - 1)) + DigitVal(s[Len(s)])

\* parseFloat on strings of digits, letters, '/' and ':': the longest prefix of
\* digits read as a decimal number, NaN when there is none
ParseFloat(s) ==
    LET n == IF \E i \in 1..Len(s) : ~IsDigit(s[i])
             THEN Min({i \in 1..Len(s) : ~IsDigit(s[i])}) - 1
             ELSE Len(s)
    IN  IF n = 0 THEN [kind |-> "Number", nan |-> TRUE, num |-> 0]
        ELSE [kind |-> "Number", nan |-> FALSE, num |-> DecimalValue(SubSeq(s, 1, n))]

(***************************************************************************)
(* BaseRoute                                                               *)
(***************************************************************************)
\* BaseRoute.cutEmptyPath(path, tail): with tail a trailing '/' is cut,
\* without it a path that is only '/' becomes the empty path
cutEmptyPath(path, tail) ==
    IF tail
    THEN IF Len(path) > 0 /\ path[Len(path)] = "/" THEN SubSeq(path, 1, Len(path) - 1) ELSE path
    ELSE IF path = <<"/">> THEN <<>> ELSE path

(***************************************************************************)
(* RequestMethod                                                           *)
(***************************************************************************)
\* a method argument is a member of the RequestMethod enum (a number in the
\* code) or a string
RM(name) == [isNumber |-> TRUE, v |-> name]
Str(s) == [isNumber |-> FALSE, v |-> s]
RequestMethod == {RM(n) : n \in {"Get", "Post", "Put", "Delete", "Options", "Head", "Patch"}}

methodToString(m) ==
    CASE m.v = "Get" -> "GET"
      [] m.v = "Post" -> "POST"
      [] m.v = "Put" -> "PUT"
      [] m.v = "Delete" -> "DELETE"
      [] m.v = "Options" -> "OPTIONS"
      [] m.v = "Head" -> "HEAD"
      [] m.v = "Patch" -> "PATCH"
      [] OTHER -> ""

\* The method strings in use, each with its toLowerCase and toUpperCase form
MethodForms == {<<"GET", "get", "GET">>, <<"get", "get", "GET">>,
                <<"POST", "post", "POST">>, <<"post", "post", "POST">>,
                <<"PUT", "put", "PUT">>, <<"Put", "put", "PUT">>,
                <<"DELETE", "delete", "DELETE">>, <<"DElETE", "delete", "DELETE">>,
                <<"OPTIONS", "options", "OPTIONS">>, <<"options", "options", "OPTIONS">>,
                <<"Options", "options", "OPTIONS">>,
                <<"HEAD", "head", "HEAD">>, <<"PATCH", "patch", "PATCH">>,
                <<"BREW", "brew", "BREW">>, <<"", "", "">>}
MethodStrings == {f[1] : f \in MethodForms}
toLowerCase(s) == (CHOOSE f \in MethodForms : f[1] = s)[2]
toUpperCase(s) == (CHOOSE f \in MethodForms : f[1] = s)[3]

\* parseRequestMethod: the RequestMethod named by a method string, Get by default
parseRequestMethod(s) ==
    LET u == toUpperCase(s)
    IN  IF \E m \in RequestMethod : methodToString(m) = u
        THEN CHOOSE m \in RequestMethod : methodToString(m) = u
        ELSE RM("Get")

(***************************************************************************)
(* Decorators and route metadata                                           *)
(***************************************************************************)
Get == "@Get"
Post == "@Post"
Put == "@Put"
Delete == "@Delete"
Options == "@Options"
Decorators == {Get, Post, Put, Delete, Options}

\* find() on no match, and a missing metadata object
Undefined == [defined |-> FALSE, route |-> <<>>, propertyKey |-> "", contentType |-> ""]

\* A RouteMetadata entry; a missing route reads as '' (route.route || ''),
\* a missing propertyKey or contentType as ""
RouteMeta(route, propertyKey, contentType) ==
    [defined |-> TRUE, route |-> route, propertyKey |-> propertyKey, contentType |-> contentType]

(***************************************************************************)
(* ControllerRoute.getDecoratorByMethod                                    *)
(***************************************************************************)
getDecoratorByMethod(method) ==
    LET m == IF method.isNumber THEN methodToString(method) ELSE toLowerCase(method.v)
    IN  CASE m = "GET" -> Get
          [] m = "POST" -> Post
          [] m = "Put" -> Put
          [] m = "DElETE" -> Delete
          [] m = "OPTIONS" -> Options
          [] OTHER -> Get

(***************************************************************************)
(* ControllerRoute.isRestUri, getRouteMetaData                             *)
(***************************************************************************)
RestMark == <<"/", ":">>

isRestUri(uri) == IndexOf(uri, RestMark) # -1

\* the request path below the mount path (lines 281-282, 202-203)
RoutPath(url, mount) == cutEmptyPath(ReplaceFirst(url, cutEmptyPath(mount, TRUE)), FALSE)

\* for (let name in methodMaps) allMethods = allMethods.concat(methodMaps[name])
RECURSIVE Flatten(_)
Flatten(groups) ==
    IF groups = <<>> THEN <<>> ELSE Head(groups) \o Flatten(Tail(groups))

\* insertion of e behind every entry whose route is at least as long
RECURSIVE InsertByLength(_, _)
InsertByLength(sorted, e) ==
    IF sorted = <<>> THEN <<e>>
    ELSE IF Len(Head(sorted).route) >= Len(e.route)
         THEN <<Head(sorted)>> \o InsertByLength(Tail(sorted), e)
         ELSE <<e>> \o sorted

\* allMethods.sort((ra, rb) => rb.route.length - ra.route.length); entries of
\* equal length keep their order (the sort is stable on arrays this short)
RECURSIVE SortByRouteLength(_)
SortByRouteLength(all) ==
    IF all = <<>> THEN <<>>
    ELSE InsertByLength(SortByRouteLength(SubSeq(all, 1, Len(all) - 1)), all[Len(all)])

\* Array.prototype.find, given the positions at which the test holds
Find(all, hits) == IF hits = {} THEN Undefined ELSE all[Min(hits)]

\* a second pass that takes the prefix only when a '/' or the end follows it
RestMatches_SegmentBoundary(route, routPath) ==
    /\ isRestUri(route.route)
    /\ LET url == Substr(route.route, 0, IndexOf(route.route, RestMark))
       IN  /\ url # routPath
           /\ IndexOf(routPath, url) = 0
           /\ Len(routPath) > Len(url) => routPath[Len(url) + 1] = "/"

\* the predicate of the second pass (lines 295-308)
RestMatches(route, routPath) ==
    /\ isRestUri(route.route)
    /\ LET url == Substr(route.route, 0, IndexOf(route.route, RestMark))
       IN  url # routPath /\ IndexOf(routPath, url) = 0

AllMethods(maps, dec) == SortByRouteLength(Flatten(maps[dec]))

\* the matcher with the exact test folded into a single pass (lines 297-299)
getRouteMetaData_SinglePass(url, mount, maps, dec) ==
    LET routPath == RoutPath(url, mount)
        allMethods == AllMethods(maps, dec)
    IN  Find(allMethods, {i \in 1..Len(allMethods) :
                             \/ allMethods[i].route = routPath
                             \/ RestMatches(allMethods[i], routPath)})

getRouteMetaData(url, mount, maps, dec) ==
    LET routPath == RoutPath(url, mount)
        allMethods == AllMethods(maps, dec)
        first == Find(allMethods, {i \in 1..Len(allMethods) : allMethods[i].route = routPath})
    IN  IF first.defined THEN first
        ELSE Find(allMethods, {i \in 1..Len(allMethods) : RestMatches(allMethods[i], routPath)})

(***************************************************************************)
(* Errors (errors/index)                                                   *)
(***************************************************************************)
BadRequestCode == 400
UnauthorizedCode == 401
NotFoundCode == 404

NoFault == [raised |-> FALSE, stage |-> "", http |-> FALSE, code |-> 0, message |-> ""]
HttpError(stage, code, message) ==
    [raised |-> TRUE, stage |-> stage, http |-> TRUE, code |-> code, message |-> message]
\* any fault that is not an HttpError
OtherError(stage, message) ==
    [raised |-> TRUE, stage |-> stage, http |-> FALSE, code |-> 0, message |-> message]

BadRequestError(stage, message) == HttpError(stage, BadRequestCode, message)
UnauthorizedError(stage) == HttpError(stage, UnauthorizedCode, "Unauthorized")
NotFoundError(stage) == HttpError(stage, NotFoundCode, "Not Found")

(***************************************************************************)
(* ControllerRoute.isBaseType, createProvider                              *)
(***************************************************************************)
\* Parameter types: the natives String, Number, Boolean and Date, an
\* injectable class Model, a function token Func that is no class, and Sym, a
\* parameter that is no token at all
ParamTypes == {"String", "Number", "Boolean", "Date", "Model", "Func", "Sym"}
isToken(p) == p # "Sym"
isFunction(p) == p # "Sym"
isClass(p) == p = "Model"

isBaseType(p) ==
    IF ~isToken(p) THEN TRUE
    ELSE IF p \in {"Boolean", "String", "Number"} THEN TRUE
    ELSE IF ~isFunction(p) THEN TRUE
    ELSE FALSE

\* values handed to the handler
UndefinedValue == [kind |-> "undefined"]
StringValue(s) == [kind |-> "String", s |-> s]
BooleanObject(s) == [kind |-> "Boolean", b |-> (s # <<>>)]
DateValue(s) == [kind |-> "Date", of |-> s]
InstanceValue(fields) == [kind |-> "Model", fields |-> fields]

\* lines 200-208: the REST value of the request, null without a REST pattern
Null == [null |-> TRUE, s |-> <<>>]
RestValue(m, url, mount) ==
    IF isRestUri(m.route)
    THEN LET route == Substr(m.route, 0, IndexOf(m.route, RestMark)) \o <<"/">>
             routeUrl == RoutPath(url, mount)
             querystring == ReplaceFirst(routeUrl, route)
             slash == IndexOf(querystring, <<"/">>)
         IN  [null |-> FALSE,
              s |-> IF slash > 0 THEN Substr(querystring, 0, slash) ELSE querystring]
    ELSE Null

\* lines 228-236: the conversion of the REST value by the parameter type
Convert(p, paramVal) ==
    CASE p = "String" -> StringValue(paramVal)
      [] p = "Boolean" -> BooleanObject(paramVal)
      [] p = "Number" -> ParseFloat(paramVal)
      [] p = "Date" -> DateValue(paramVal)
      [] OTHER -> UndefinedValue

\* container.get(p) of the model class: the shared instance of a singleton
\* registration, a new instance otherwise
NewInstance == [n \in {} |-> <<>>]
GetInstance(cont) == IF cont.singleton THEN cont.instance ELSE NewInstance

\* a copy of every key of the body, declared as a Field or not
Assign_AllBodyKeys(val, fields, body) ==
    [n \in DOMAIN val \cup DOMAIN body |-> IF n \in DOMAIN body THEN body[n] ELSE val[n]]

\* lines 213-219: every declared Field whose key the body defines is copied
Assign(val, fields, body) ==
    [n \in DOMAIN val \cup (fields \cap DOMAIN body) |->
        IF n \in fields \cap DOMAIN body THEN body[n] ELSE val[n]]

\* the container after createProvider: a shared instance keeps what was assigned
ContainerAfterBind(cont, params, body, fields) ==
    IF cont.singleton /\ \E i \in 1..Len(params) : isClass(params[i]) /\ ~isBaseType(params[i])
    THEN [cont EXCEPT !.instance = Assign(cont.instance, fields, body)]
    ELSE cont

\* providers that hold the instance as the container gave it, before the
\* fields of the body are copied
createProvider_BeforeAssign(cont, m, params, url, mount, body, fields) ==
    LET paramVal == RestValue(m, url, mount)
        consumed(i) == \E j \in 1..(i - 1) : ~(isClass(params[j]) /\ ~isBaseType(params[j]))
                                              /\ isBaseType(params[j])
        provider(i) ==
            LET p == params[i]
            IN  IF isClass(p) /\ ~isBaseType(p)
                THEN [index |-> i - 1, null |-> FALSE,
                      value |-> InstanceValue(GetInstance(cont))]
                ELSE IF isBaseType(p)
                THEN [index |-> i - 1, null |-> FALSE,
                      value |-> IF ~paramVal.null /\ ~consumed(i)
                                THEN Convert(p, paramVal.s) ELSE UndefinedValue]
                ELSE [index |-> i - 1, null |-> TRUE, value |-> UndefinedValue]
        providers == [i \in 1..Len(params) |-> provider(i)]
    IN  SelectSeq(providers, LAMBDA q : ~q.null)

\* providers in which the REST value stays available after its first use
createProvider_NoConsume(cont, m, params, url, mount, body, fields) ==
    LET paramVal == RestValue(m, url, mount)
        provider(i) ==
            LET p == params[i]
            IN  IF isClass(p) /\ ~isBaseType(p)
                THEN [index |-> i - 1, null |-> FALSE,
                      value |-> InstanceValue(Assign(GetInstance(cont), fields, body))]
                ELSE IF isBaseType(p)
                THEN [index |-> i - 1, null |-> FALSE,
                      value |-> IF ~paramVal.null THEN Convert(p, paramVal.s)
                                ELSE UndefinedValue]
                ELSE [index |-> i - 1, null |-> TRUE, value |-> UndefinedValue]
        providers == [i \in 1..Len(params) |-> provider(i)]
    IN  SelectSeq(providers, LAMBDA q : ~q.null)

\* the providers of createProvider; index is the 0-based position of the
\* parameter, and null entries (line 244) are filtered out (line 250)
createProvider(cont, m, params, url, mount, body, fields) ==
    LET paramVal == RestValue(m, url, mount)
        \* paramVal is set to null by the first base-type parameter
        consumed(i) == \E j \in 1..(i - 1) : ~(isClass(params[j]) /\ ~isBaseType(params[j]))
                                              /\ isBaseType(params[j])
        provider(i) ==
            LET p == params[i]
            IN  IF isClass(p) /\ ~isBaseType(p)
                THEN [index |-> i - 1, null |-> FALSE,
                      value |-> InstanceValue(Assign(GetInstance(cont), fields, body))]
                ELSE IF isBaseType(p)
                THEN [index |-> i - 1, null |-> FALSE,
                      value |-> IF ~paramVal.null /\ ~consumed(i)
                                THEN Convert(p, paramVal.s) ELSE UndefinedValue]
                ELSE [index |-> i - 1, null |-> TRUE, value |-> UndefinedValue]
        providers == [i \in 1..Len(params) |-> provider(i)]
    IN  SelectSeq(providers, LAMBDA q : ~q.null)

(***************************************************************************)
(* ControllerRoute.navigating and invoke                                   *)
(***************************************************************************)
InternalErrorStatus == 500
ForbiddenCode == 403

\* an object is a function from the keys it has to their values;
\* Object.assign({}, a, b)
ObjectAssign(a, b) == [k \in DOMAIN a \cup DOMAIN b |-> IF k \in DOMAIN b THEN b[k] ELSE a[k]]
NoKeys == [k \in {} |-> <<>>]

NoRejection == [rejected |-> FALSE, headers |-> NoKeys]
\* the errors a downstream middleware rejects with: with and without headers
DownstreamErrors == {[rejected |-> TRUE, headers |-> NoKeys],
                     [rejected |-> TRUE,
                      headers |-> ("Access-Control-Allow-Origin" :> <<"https://old.example">>)
                                  @@ ("X-Trace" :> <<"t1">>)]}

NoCalls == [getController |-> 0, isAuth |-> 0, getMethodParameters |-> 0, createProvider |-> 0,
            invoke |-> 0, sendValue |-> 0, next |-> 0, navigating |-> 0]

\* what the handler of a request returns: a string, a Uint8Array, a
\* ResultValue (JsonResult, RedirectResult), a plain object, or nothing
Responses == {[kind |-> "string", data |-> "hello"],
              [kind |-> "Uint8Array", data |-> "bytes"],
              [kind |-> "JsonResult", data |-> "json"],
              [kind |-> "RedirectResult", data |-> "/login"],
              [kind |-> "object", data |-> "obj"],
              [kind |-> "undefined", data |-> ""]}
isString(r) == r.kind = "string"
\* util.isArray is Array.isArray, which no typed array satisfies
isArray(r) == FALSE
isObject(r) == r.kind \in {"Uint8Array", "JsonResult", "RedirectResult", "object"}
isResultValue(r) == r.kind \in {"JsonResult", "RedirectResult"}

\* the places of a dispatch where a collaborator can fail
SyncStages == {"match", "getController", "isAuth", "getMethodParameters", "bind"}
Thrown == {OtherError("", "boom"), HttpError("", ForbiddenCode, "Forbidden")}
At(stage, e) == [e EXCEPT !.stage = stage]
NoInject == [stage |-> "none", e |-> NoFault]

\* the locals of one navigating call while its synchronous part runs
Locals == [fault |-> NoFault, decorator |-> decorator, meta |-> meta, calls |-> calls,
           bound |-> bound, container |-> container]

\* lines 28-33
SelectBucket(r) ==
    LET dec == getDecoratorByMethod(Str(ctx.method))
    IN  IF dec # Options
        THEN [r EXCEPT !.decorator = dec]
        ELSE [r EXCEPT !.decorator = dec, !.fault = BadRequestError("method", "Bad Request")]

\* the matcher result tested for meta alone, not for its propertyKey
MatchRoute_MetaOnly(r, inj) ==
    IF r.fault.raised THEN r
    ELSE IF inj.stage = "match" THEN [r EXCEPT !.fault = At("match", inj.e)]
    ELSE LET m == getRouteMetaData(ctx.url, thisUrl, methodMaps, r.decorator)
         IN  IF m.defined
             THEN [r EXCEPT !.meta = m]
             ELSE [r EXCEPT !.meta = m, !.fault = NotFoundError("match")]

\* lines 137-138, 169-171
MatchRoute(r, inj) ==
    IF r.fault.raised THEN r
    ELSE IF inj.stage = "match" THEN [r EXCEPT !.fault = At("match", inj.e)]
    ELSE LET m == getRouteMetaData(ctx.url, thisUrl, methodMaps, r.decorator)
         IN  IF m.defined /\ m.propertyKey # ""
             THEN [r EXCEPT !.meta = m]
             ELSE [r EXCEPT !.meta = m, !.fault = NotFoundError("match")]

\* line 139
GetController(r, inj) ==
    IF r.fault.raised THEN r
    ELSE LET r1 == [r EXCEPT !.calls.getController = @ + 1]
         IN  IF inj.stage = "getController"
             THEN [r1 EXCEPT !.fault = At("getController", inj.e)] ELSE r1

\* the authorization check with its result ignored
Authorize_Unchecked(r, inj) ==
    IF r.fault.raised THEN r
    ELSE IF container.hasAuthorization /\ r.meta.propertyKey \in registry.authorization
    THEN LET r1 == [r EXCEPT !.calls.isAuth = @ + 1]
         IN  IF inj.stage = "isAuth" THEN [r1 EXCEPT !.fault = At("isAuth", inj.e)] ELSE r1
    ELSE r

\* lines 140-148
Authorize(r, inj) ==
    IF r.fault.raised THEN r
    ELSE IF container.hasAuthorization /\ r.meta.propertyKey \in registry.authorization
    THEN LET r1 == [r EXCEPT !.calls.isAuth = @ + 1]
         IN  IF inj.stage = "isAuth" THEN [r1 EXCEPT !.fault = At("isAuth", inj.e)]
             ELSE IF ~container.isAuth THEN [r1 EXCEPT !.fault = UnauthorizedError("auth")]
             ELSE r1
    ELSE r

\* line 150
GetMethodParameters(r, inj) ==
    IF r.fault.raised THEN r
    ELSE LET r1 == [r EXCEPT !.calls.getMethodParameters = @ + 1]
         IN  IF inj.stage = "getMethodParameters"
             THEN [r1 EXCEPT !.fault = At("getMethodParameters", inj.e)] ELSE r1

\* err.toString(): the name of the error and its message
ErrToString(e) == IF e.message = "boom" THEN "Error: boom" ELSE "HttpError: Forbidden"

\* container.getMethodParameters: the declared parameter types of the handler
HandlerParams(propertyKey) ==
    IF propertyKey \in DOMAIN registry.params THEN registry.params[propertyKey] ELSE <<>>
HasClassParam(params) == \E i \in 1..Len(params) : isClass(params[i]) /\ ~isBaseType(params[i])

\* line 151, the arguments: provider(meta, params, ctrl) is createProvider;
\* a fault inside its map callback leaves as a BadRequestError (lines 246-248)
BindParameters(r, inj) ==
    IF r.fault.raised THEN r
    ELSE LET params == HandlerParams(r.meta.propertyKey)
             r1 == [r EXCEPT !.calls.createProvider = @ + 1]
         IN  IF inj.stage = "bind" /\ HasClassParam(params)
             THEN [r1 EXCEPT !.fault = BadRequestError("bind", ErrToString(inj.e))]
             ELSE [r1 EXCEPT
                     !.bound = Append(@, createProvider(r.container, r.meta, params, ctx.url,
                                                        thisUrl, ctx.reqBody, registry.fields)),
                     !.container = ContainerAfterBind(r.container, params, ctx.reqBody,
                                                      registry.fields)]

\* line 151, the call
InvokeHandler(r) ==
    IF r.fault.raised THEN r ELSE [r EXCEPT !.calls.invoke = @ + 1]

SyncPart(inj) ==
    InvokeHandler(BindParameters(GetMethodParameters(Authorize(GetController(
        MatchRoute(SelectBucket(Locals), inj), inj), inj), inj), inj))

\* a catch block that knows no HttpError
Catch_AlwaysInternal(c, e) == [c EXCEPT !.status = InternalErrorStatus]

\* lines 35-43
Catch(c, e) ==
    IF e.http THEN [c EXCEPT !.status = e.code, !.message = e.message]
    ELSE [c EXCEPT !.status = InternalErrorStatus]

\* lines 26-33 and invoke up to its first await
NavigatingStart ==
    /\ pc = "start"
    /\ \E inj \in {NoInject} \cup [stage : SyncStages, e : Thrown] :
         LET r == SyncPart(inj)
         IN  /\ decorator' = r.decorator
             /\ meta' = r.meta
             /\ calls' = r.calls
             /\ bound' = r.bound
             /\ container' = r.container
             /\ fault' = r.fault
             /\ IF r.fault.raised
                THEN /\ ctx' = Catch(ctx, r.fault)
                     /\ pc' = "done"
                     /\ outcome' = "resolved"
                ELSE /\ pc' = "awaitInvoke"
                     /\ UNCHANGED <<ctx, outcome>>
    /\ UNCHANGED <<builder, pair, orders, chainOp, thisUrl, methodMaps, registry, response, headersSet, rejection>>

\* a navigating that returns without calling the continuation
CallNext_Dropped(c) ==
    /\ ctx' = c
    /\ pc' = "done"
    /\ outcome' = "resolved"
    /\ UNCHANGED <<calls, fault>>

\* line 34: return next(); a throw of next() itself is still inside the try
CallNext(c) ==
    /\ calls' = [calls EXCEPT !.next = @ + 1]
    /\ \E nx \in {[stage |-> "promise", e |-> NoFault]} \cup [stage : {"next"}, e : Thrown] :
         IF nx.stage = "next"
         THEN /\ fault' = At("next", nx.e)
              /\ ctx' = Catch(c, fault')
              /\ pc' = "done"
              /\ outcome' = "resolved"
         ELSE /\ ctx' = c
              /\ pc' = "awaitNext"
              /\ UNCHANGED <<fault, outcome>>

\* lines 153-167 for a response that is no ResultValue
Serialize(c, r, m) ==
    IF isString(r) THEN [c EXCEPT !.body = r]
    ELSE IF isArray(r) /\ r.kind = "Uint8Array" THEN [c EXCEPT !.body = [kind |-> "Buffer", data |-> r.data]]
    ELSE IF isObject(r)
    THEN [c EXCEPT !.type = IF m.contentType # "" THEN m.contentType ELSE "application/json",
                   !.body = r]
    ELSE c

\* line 151: the promise of container.invoke settles
HandlerSettles ==
    /\ pc = "awaitInvoke"
    /\ \/ \E e \in Thrown :
            /\ fault' = At("invoke", e)
            /\ ctx' = Catch(ctx, fault')
            /\ pc' = "done"
            /\ outcome' = "resolved"
            /\ UNCHANGED <<calls, response>>
       \/ \E r \in Responses :
            /\ response' = r
            /\ IF ~isString(r) /\ ~(isArray(r) /\ r.kind = "Uint8Array") /\ isObject(r)
                  /\ isResultValue(r)
               THEN /\ calls' = [calls EXCEPT !.sendValue = @ + 1]
                    /\ pc' = "awaitSend"
                    /\ UNCHANGED <<ctx, fault, outcome>>
               ELSE CallNext(Serialize(ctx, r, meta))
    /\ UNCHANGED <<builder, pair, orders, chainOp, thisUrl, methodMaps, registry, container, decorator, meta, bound, headersSet,
                   rejection>>

RedirectStatus == 302

\* JsonResult.sendValue, RedirectResult.sendValue
sendValue(c, r) ==
    IF r.kind = "JsonResult" THEN [c EXCEPT !.type = "application/json", !.body = r]
    ELSE [c EXCEPT !.status = RedirectStatus, !.headers = ("Location" :> <<r.data>>) @@ @]

\* line 161: the promise of response.sendValue settles
SendValueSettles ==
    /\ pc = "awaitSend"
    /\ \/ \E e \in Thrown :
            /\ fault' = At("sendValue", e)
            /\ ctx' = Catch(ctx, fault')
            /\ pc' = "done"
            /\ outcome' = "resolved"
            /\ UNCHANGED calls
       \/ CallNext(sendValue(ctx, response))
    /\ UNCHANGED <<builder, pair, orders, chainOp, thisUrl, methodMaps, registry, container, decorator, meta, bound, response,
                   headersSet, rejection>>

\* a navigating that awaits next() inside its try: the catch block takes the error
NextRejects_Awaited(err) ==
    /\ ctx' = [ctx EXCEPT !.status = InternalErrorStatus]
    /\ outcome' = "resolved"
    /\ rejection' = err

\* line 34: the promise of next() is returned, not awaited, so that its
\* rejection passes the catch block by and settles the promise of navigating
NextRejects(err) ==
    /\ ctx' = ctx
    /\ outcome' = "rejected"
    /\ rejection' = err

\* the promise that next() returned settles, and with it the promise of navigating
NextSettles ==
    /\ pc = "awaitNext"
    /\ \/ /\ outcome' = "resolved"
          /\ UNCHANGED <<ctx, rejection>>
       \/ \E err \in DownstreamErrors : NextRejects(err)
    /\ pc' = "done"
    /\ UNCHANGED <<builder, pair, orders, chainOp, thisUrl, methodMaps, registry, container, decorator, meta, calls,
                   bound, fault, response, headersSet>>

(***************************************************************************)
(* ControllerRoute.invokeOption (CORS)                                     *)
(***************************************************************************)
NoContentStatus == 204

\* Array.prototype.join(',')
RECURSIVE Join(_)
Join(list) ==
    IF list = <<>> THEN <<>>
    ELSE IF Len(list) = 1 THEN <<list[1]>>
    ELSE <<list[1], ",">> \o Join(Tail(list))

DefaultAllowMethods == <<"GET", ",", "HEAD", ",", "PUT", ",", "POST", ",", "DELETE", ",", "PATCH">>

Has(o, k) == k \in DOMAIN o

\* a list option is an array of items or a string given as written
ArrayOf(items) == [array |-> TRUE, items |-> items]
StringOf(str) == [array |-> FALSE, items |-> str]

\* ctx.set(key, value)
SetHeader(c, key, value) == [c EXCEPT !.headers = (key :> value) @@ @]

\* String(options.maxAge)
MaxAgeString(options) ==
    IF Has(options, "maxAge") THEN <<ToString(options.maxAge)>> ELSE <<"undefined">>

\* the allowed methods without the default of line 113
AllowMethodsString_NoDefault(options) ==
    IF ~Has(options, "allowMethods") THEN <<>>
    ELSE IF options.allowMethods.array
    THEN Join([i \in 1..Len(options.allowMethods.items) |->
                  methodToString(options.allowMethods.items[i])])
    ELSE options.allowMethods.items

\* lines 112-113
AllowMethodsString(options) ==
    LET allowsM == IF ~Has(options, "allowMethods") THEN <<>>
                   ELSE IF options.allowMethods.array
                   THEN Join([i \in 1..Len(options.allowMethods.items) |->
                                 methodToString(options.allowMethods.items[i])])
                   ELSE options.allowMethods.items
    IN  IF allowsM # <<>> THEN allowsM ELSE DefaultAllowMethods

\* lines 118-121
AllowHeadersString(options, c) ==
    LET allowH == IF ~Has(options, "allowHeaders") THEN <<>>
                  ELSE IF options.allowHeaders.array THEN Join(options.allowHeaders.items)
                  ELSE options.allowHeaders.items
    IN  IF allowH # <<>> THEN allowH ELSE c.acrh

\* the CORS metadata of the controller taken before that of the handler
CorsMetas_TypeFirst(propertyKey) ==
    LET ofMethod == IF propertyKey \in DOMAIN registry.corsMethod
                    THEN registry.corsMethod[propertyKey] ELSE <<>>
    IN  IF Len(registry.corsType) < 1 THEN ofMethod ELSE registry.corsType

\* lines 95-98: the CORS metadata of the handler, else that of the controller
CorsMetas(propertyKey) ==
    LET ofMethod == IF propertyKey \in DOMAIN registry.corsMethod
                    THEN registry.corsMethod[propertyKey] ELSE <<>>
    IN  IF Len(ofMethod) < 1 THEN registry.corsType ELSE ofMethod

\* line 63: config.corsOptions || {}
GlobalCorsOptions == IF container.config.hasCorsOptions THEN container.config.corsOptions ELSE NoKeys

\* lines 100-126
Preflight(c, corsmeta) ==
    LET options == ObjectAssign(GlobalCorsOptions, corsmeta)
        c1 == SetHeader(c, "Access-Control-Allow-Origin", c.origin)
        c2 == IF Has(options, "credentials") /\ options.credentials = TRUE
              THEN SetHeader(c1, "Access-Control-Allow-Credentials", <<"true">>) ELSE c1
        maxAge == MaxAgeString(options)
        c3 == IF maxAge # <<>> THEN SetHeader(c2, "Access-Control-Max-Age", maxAge) ELSE c2
        allowsM == AllowMethodsString(options)
        c4 == IF allowsM # <<>> THEN SetHeader(c3, "Access-Control-Allow-Methods", allowsM) ELSE c3
        allowH == AllowHeadersString(options, c)
        c5 == IF allowH # <<>> THEN SetHeader(c4, "Access-Control-Allow-Headers", allowH) ELSE c4
    IN  [c5 EXCEPT !.status = NoContentStatus]

\* lines 67-75: the headers of a cross-origin request that is no preflight
SimpleCorsHeaders(c) ==
    LET options == GlobalCorsOptions
        h1 == "Access-Control-Allow-Origin" :> c.origin
        h2 == IF Has(options, "credentials") /\ options.credentials = TRUE
              THEN ("Access-Control-Allow-Credentials" :> <<"true">>) @@ h1 ELSE h1
    IN  IF Has(options, "exposeHeaders") /\ options.exposeHeaders # <<>>
        THEN ("Access-Control-Expose-Headers" :> options.exposeHeaders) @@ h2 ELSE h2

\* every OPTIONS request taken for a preflight
IsPreflight_Always(c) == TRUE

\* line 85: an OPTIONS request is a preflight when it names the method it asks for
IsPreflight(c) == c.acrm # ""

\* next() is called and returns its promise
OptionCallsNext(c, keep) ==
    /\ ctx' = c
    /\ calls' = [calls EXCEPT !.next = @ + 1]
    /\ pc' = IF keep THEN "awaitNextKeep" ELSE "awaitNextCors"

\* lines 47-135, up to the return
InvokeOption ==
    /\ pc = "option"
    /\ LET c0 == [ctx EXCEPT !.vary = @ \cup {"Origin"}]
       IN  IF c0.origin = <<>>
           THEN OptionCallsNext(c0, FALSE) /\ UNCHANGED <<decorator, meta, headersSet>>
           ELSE IF c0.method # "OPTIONS"
           THEN /\ headersSet' = SimpleCorsHeaders(c0)
                /\ OptionCallsNext([c0 EXCEPT !.headers = headersSet' @@ @],
                                   Has(GlobalCorsOptions, "keepHeadersOnError")
                                       /\ GlobalCorsOptions.keepHeadersOnError = TRUE)
                /\ UNCHANGED <<decorator, meta>>
           ELSE IF ~IsPreflight(c0)
           THEN OptionCallsNext(c0, FALSE) /\ UNCHANGED <<decorator, meta, headersSet>>
           ELSE LET method == parseRequestMethod(c0.acrm)
                    dec == getDecoratorByMethod(method)
                    m == getRouteMetaData(c0.url, thisUrl, methodMaps, dec)
                IN  /\ decorator' = dec
                    /\ meta' = m
                    /\ UNCHANGED headersSet
                    /\ IF m.defined /\ m.propertyKey # "" /\ Len(CorsMetas(m.propertyKey)) > 0
                       THEN /\ ctx' = Preflight(c0, CorsMetas(m.propertyKey)[1])
                            /\ pc' = "done"
                            /\ UNCHANGED calls
                       ELSE OptionCallsNext(c0, FALSE)
    /\ outcome' = IF pc' = "done" THEN "resolved" ELSE "pending"
    /\ UNCHANGED <<builder, pair, orders, chainOp, thisUrl, methodMaps, registry, container, bound, fault, response, rejection>>

\* an error whose own headers win over the emitted ones
KeepHeaders_ErrorWins(err, set) ==
    [err EXCEPT !.headers = ObjectAssign(ObjectAssign(NoKeys, set), err.headers)]

\* line 81: err.headers = Object.assign({}, err.headers, headersSet)
KeepHeaders(err, set) ==
    [err EXCEPT !.headers = ObjectAssign(ObjectAssign(NoKeys, err.headers), set)]

\* the promise of next() settles; lines 80-83 when keepHeadersOnError is set
OptionNextSettles ==
    /\ pc \in {"awaitNextCors", "awaitNextKeep"}
    /\ \/ /\ outcome' = "resolved"
          /\ UNCHANGED rejection
       \/ \E err \in DownstreamErrors :
            /\ outcome' = "rejected"
            /\ rejection' = IF pc = "awaitNextKeep" THEN KeepHeaders(err, headersSet) ELSE err
    /\ pc' = "done"
    /\ UNCHANGED <<builder, pair, orders, chainOp, thisUrl, methodMaps, registry, container, ctx, decorator, meta, calls, bound,
                   fault, response, headersSet>>

(***************************************************************************)
(* MiddlewareChain                                                         *)
(***************************************************************************)
MaxChain == 3        \* entries in the chain

\* What can be handed to the chain: classes declared with @Middleware (ClassA
\* named a, ClassB named b before a, ClassC named c after a), a class without
\* that decorator, string tokens with and without a registered class, a plain
\* handler function, and the Middleware decorator itself
MiddlewareDecorator == "@Middleware"
MiddlewareTypes == {"ClassA", "ClassB", "ClassC", "ClassN", "strA", "strX", "fn"}

\* @ts-ioc/core isClass, and util.isString / isFunction, on these values; the
\* decorator factory is an arrow function, which is no class
isMiddlewareClass(w) == w \in {"ClassA", "ClassB", "ClassC", "ClassN"}
isStringToken(w) == w \in {"strA", "strX"}
isMiddlewareToken(w) == isMiddlewareClass(w) \/ isStringToken(w)
isHandlerFunction(w) == w \in {"fn", MiddlewareDecorator} \/ isMiddlewareClass(w)

\* container.getTokenImpl: the class registered for a token, if any
NoType == "none"
getTokenImpl(w) == IF w = "strA" THEN "ClassA" ELSE NoType

\* MiddlewareMetadata; a key that is not there reads as ""
NullMeta == [defined |-> FALSE, name |-> "", before |-> "", after |-> ""]
MiddlewareMeta(name, before, after) ==
    [defined |-> TRUE, name |-> name, before |-> before, after |-> after]

\* getTypeMetadata(Middleware, type): what the class was decorated with
getTypeMetadata(type) ==
    CASE type = "ClassA" -> <<MiddlewareMeta("a", "", "")>>
      [] type = "ClassB" -> <<MiddlewareMeta("b", "a", "")>>
      [] type = "ClassC" -> <<MiddlewareMeta("c", "", "a")>>
      [] OTHER -> <<>>

\* lang.first
First(list) == IF list = <<>> THEN NullMeta ELSE list[1]

\* lines 110-119
getMiddlewareMeta(middleware) ==
    LET type == IF isMiddlewareClass(middleware) THEN middleware ELSE getTokenImpl(middleware)
    IN  IF isMiddlewareClass(type) THEN First(getTypeMetadata(type))
        ELSE IF isStringToken(middleware) THEN MiddlewareMeta(middleware, "", "")
        ELSE NullMeta

OrderMiddleware(name, middleware) == [name |-> name, middleware |-> middleware]

\* Array.prototype.findIndex(v => v.name && v.name === name): 0-based, or -1
FindIndex(chain, name) ==
    LET hits == {i \in 1..Len(chain) : chain[i].name # "" /\ chain[i].name = name}
    IN  IF hits = {} THEN -1 ELSE Min(hits) - 1

\* Array.prototype.splice(idx, 0, e) for 0 <= idx < length
Splice(chain, idx, e) == SubSeq(chain, 1, idx) \o <<e>> \o SubSeq(chain, idx + 1, Len(chain))

\* an insertion that knows no relative position
insertByMeta_Append(chain, m, middleware) == Append(chain, OrderMiddleware(m.name, middleware))

\* an insertion behind the entry that before names
insertByMeta_BehindMatch(chain, m, middleware) ==
    LET ordMidd == OrderMiddleware(m.name, middleware)
        idx0 == Len(chain)
        idx1 == IF m.before # "" THEN FindIndex(chain, m.before) + 1 ELSE idx0
        idx == IF m.after # "" THEN FindIndex(chain, m.after) + 1 ELSE idx1
    IN  IF Len(chain) < 1 THEN Append(chain, ordMidd)
        ELSE IF idx < 0 \/ idx >= Len(chain) THEN Append(chain, ordMidd)
        ELSE Splice(chain, idx, ordMidd)

\* an insertion in which a declared before decides over a declared after
insertByMeta_BeforeWins(chain, m, middleware) ==
    LET ordMidd == OrderMiddleware(m.name, middleware)
        idx0 == Len(chain)
        idx1 == IF m.after # "" THEN FindIndex(chain, m.after) + 1 ELSE idx0
        idx == IF m.before # "" THEN FindIndex(chain, m.before) ELSE idx1
    IN  IF Len(chain) < 1 THEN Append(chain, ordMidd)
        ELSE IF idx < 0 \/ idx >= Len(chain) THEN Append(chain, ordMidd)
        ELSE Splice(chain, idx, ordMidd)

\* lines 121-141
insertByMeta(chain, m, middleware) ==
    LET ordMidd == OrderMiddleware(m.name, middleware)
        idx0 == Len(chain)
        idx1 == IF m.before # "" THEN FindIndex(chain, m.before) ELSE idx0
        idx == IF m.after # "" THEN FindIndex(chain, m.after) + 1 ELSE idx1
    IN  IF Len(chain) < 1 THEN Append(chain, ordMidd)
        ELSE IF idx < 0 \/ idx >= Len(chain) THEN Append(chain, ordMidd)
        ELSE Splice(chain, idx, ordMidd)

\* lines 99-108: the metadata is looked up for the Middleware decorator, not
\* for the middleware that is being inserted
insert(chain, middleware) ==
    LET m == getMiddlewareMeta(MiddlewareDecorator)
    IN  IF m.defined THEN insertByMeta(chain, m, middleware) ELSE chain

\* DefaultMiddlewawres (IMiddleware): the names of the built-in middlewares
DefaultMiddlewawres == <<"strX", "strA">>

\* lines 165-173
RECURSIVE InsertAll(_, _)
InsertAll(list, chain) ==
    IF list = <<>> THEN chain ELSE InsertAll(Tail(list), insert(chain, Head(list)))
getDefault == InsertAll(DefaultMiddlewawres, <<>>)

\* lines 77-79
getChain == [i \in 1..Len(orders) |-> orders[i].middleware]

NoChainOp == [op |-> "none", middleware |-> "", match |-> "", meta |-> NullMeta,
              chain |-> <<>>, thrown |-> FALSE]
ChainOp(op, middleware, match, m, thrown) ==
    [op |-> op, middleware |-> middleware, match |-> match, meta |-> m, chain |-> orders,
     thrown |-> thrown]

(***************************************************************************)
(* Paths, patterns and the other values requests and controllers are made  *)
(* of                                                                      *)
(***************************************************************************)
Patterns == {<<>>,
             <<"/", "a">>,
             <<"/", "a", "/", "b">>,
             <<"/", ":", "i">>,
             <<"/", "a", "/", ":", "i">>,
             <<"/", "a", "/", ":", "i", "d", "x", "y">>,
             <<"/", "a", "/", ":", "i", "/", "o">>,
             <<"/", "a", "/", "b", "/", ":", "i">>}

Paths == {<<>>,
          <<"/">>,
          <<"/", "a">>,
          <<"/", "a", "b">>,
          <<"/", "4">>,
          <<"/", "a", "/">>,
          <<"/", "a", "/", "b">>,
          <<"/", "a", "/", "4", "2">>,
          <<"/", "a", "/", "b", "/", "4">>,
          <<"/", "a", "/", "4", "2", "/", "o">>,
          <<"/", "a", "/", "/", "o">>}

Mounts == {<<>>, <<"/", "u">>}

HandlerNames == <<"h1", "h2", "h3", "h4", "h5">>
Handlers == {HandlerNames[i] : i \in 1..Len(HandlerNames)}

SeqsUpTo(n, S) == UNION {[1..k -> S] : k \in 0..n}

\* the method map of a bucket declaring the given routes, one handler per
\* route; with overload the first handler declares the first two routes
MapOf(routes, overload) ==
    LET entry(i) == RouteMeta(routes[i], HandlerNames[IF overload /\ i = 2 THEN 1 ELSE i], "")
    IN  IF overload /\ Len(routes) >= 2
        THEN <<<<entry(1), entry(2)>>>> \o [i \in 1..(Len(routes) - 2) |-> <<entry(i + 2)>>]
        ELSE [i \in 1..Len(routes) |-> <<entry(i)>>]

NoMaps == [d \in Decorators |-> <<>>]

BaseRegistry == [authorization |-> {},
                 params |-> [h \in Handlers |-> <<>>],
                 fields |-> {"name"},
                 corsMethod |-> NoKeys,
                 corsType |-> <<>>]

BaseContainer == [hasAuthorization |-> FALSE,
                  isAuth |-> TRUE,
                  singleton |-> TRUE,
                  instance |-> NewInstance,
                  config |-> [hasCorsOptions |-> FALSE, corsOptions |-> NoKeys]]

NoResponse == [kind |-> "undefined", data |-> ""]

BaseCtx == [method |-> "GET", url |-> <<>>, origin |-> <<>>, acrm |-> "", acrh |-> <<>>,
            reqBody |-> NoKeys, status |-> 0, message |-> "", type |-> "",
            body |-> NoResponse, headers |-> NoKeys, vary |-> {}]

\* no WebHostBuilder and no second request are part of the run
NoBuilder == [pc |-> "none"]
NoPair == <<>>

\* the locals and observers of a request that has not started
Idle ==
    /\ meta = Undefined
    /\ calls = NoCalls
    /\ outcome = "pending"
    /\ bound = <<>>
    /\ fault = NoFault
    /\ response = NoResponse
    /\ headersSet = NoKeys
    /\ rejection = NoRejection
    /\ orders = getDefault
    /\ chainOp = NoChainOp

Fresh ==
    /\ Idle
    /\ builder = NoBuilder
    /\ pair = NoPair

(***************************************************************************)
(* The route matcher on its own: one getRouteMetaData call per request     *)
(***************************************************************************)
InitMatch ==
    /\ thisUrl \in Mounts
    /\ decorator \in {Get, Post}
    /\ \E routes \in SeqsUpTo(MaxEntries, Patterns), overload \in BOOLEAN :
           methodMaps = [NoMaps EXCEPT ![decorator] = MapOf(routes, overload)]
    /\ \E path \in Paths : ctx = [BaseCtx EXCEPT !.url = thisUrl \o path]
    /\ registry = BaseRegistry
    /\ container = BaseContainer
    /\ pc = "match"
    /\ Fresh

Match ==
    /\ pc = "match"
    /\ meta' = getRouteMetaData(ctx.url, thisUrl, methodMaps, decorator)
    /\ pc' = "matched"
    /\ UNCHANGED <<builder, pair, orders, chainOp, thisUrl, methodMaps, registry, container, ctx, decorator, calls, outcome,
                   bound, fault, response, headersSet, rejection>>

NextMatch == Match

SpecMatch == InitMatch /\ [][NextMatch]_vars

(***************************************************************************)
(* Bucket selection: the decorator a request method selects, from the      *)
(* string of ctx.method (navigating) and from the RequestMethod parsed off *)
(* Access-Control-Request-Method (invokeOption), with the match it leads to*)
(***************************************************************************)
BucketMethods == MethodStrings
BucketRequested == {"GET", "POST", "PUT", "DELETE", "OPTIONS", "PATCH", "BREW"}
\* the handler a bucket declares for '/a'
BucketHandler(d) ==
    CASE d = Get -> "h1" [] d = Post -> "h2" [] d = Put -> "h3" [] d = Delete -> "h4"
      [] OTHER -> "h5"

InitBucket ==
    /\ thisUrl = <<"/", "u">>
    /\ \E buckets \in SUBSET Decorators :
          methodMaps = [d \in Decorators |->
                           IF d \in buckets
                           THEN <<<<RouteMeta(<<"/", "a">>, BucketHandler(d), "")>>>> ELSE <<>>]
    /\ \E method \in BucketMethods, acrm \in BucketRequested :
          ctx = [BaseCtx EXCEPT !.method = method, !.acrm = acrm, !.url = <<"/", "u", "/", "a">>]
    /\ registry = BaseRegistry
    /\ container = BaseContainer
    /\ decorator = Get
    /\ pc = "select"
    /\ Fresh

\* lines 28 and 137: the bucket of ctx.method and the match in it
SelectByMethod ==
    /\ pc = "select"
    /\ decorator' = getDecoratorByMethod(Str(ctx.method))
    /\ meta' = IF decorator' # Options
               THEN getRouteMetaData(ctx.url, thisUrl, methodMaps, decorator') ELSE meta
    /\ pc' = "selectedByMethod"
    /\ UNCHANGED <<builder, pair, orders, chainOp, thisUrl, methodMaps, registry, container, ctx, calls, outcome, bound, fault,
                   response, headersSet, rejection>>

\* lines 90-92: the bucket of the requested method and the match in it
SelectByRequestedMethod ==
    /\ pc = "select"
    /\ decorator' = getDecoratorByMethod(parseRequestMethod(ctx.acrm))
    /\ meta' = getRouteMetaData(ctx.url, thisUrl, methodMaps, decorator')
    /\ pc' = "selectedByRequested"
    /\ UNCHANGED <<builder, pair, orders, chainOp, thisUrl, methodMaps, registry, container, ctx, calls, outcome, bound, fault,
                   response, headersSet, rejection>>

NextBucket == SelectByMethod \/ SelectByRequestedMethod

SpecBucket == InitBucket /\ [][NextBucket]_vars

(***************************************************************************)
(* Normal dispatch: one request through navigating                         *)
(***************************************************************************)
NavPatterns == {<<>>, <<"/", "a">>, <<"/", "a", "/", ":", "i">>}
NavPaths == {<<"/", "a">>, <<"/", "a", "/", "4", "2">>, <<"/", "a", "/", "/", "o">>, <<"/", "4">>}
NavMethods == {"GET", "POST", "OPTIONS", "options"}
NavParams == {<<>>, <<"Number">>, <<"String">>, <<"Model", "Boolean">>}
MaxNavEntries == 2
\* one handler per route; the second declares a content type
NavMapOf(routes) ==
    [i \in 1..Len(routes) |->
        <<RouteMeta(routes[i], HandlerNames[i], IF i = 2 THEN "application/xml" ELSE "")>>]

InitNav ==
    /\ thisUrl = <<"/", "u">>
    /\ \E routes \in SeqsUpTo(MaxNavEntries, NavPatterns), anon \in BOOLEAN :
          methodMaps = [NoMaps EXCEPT
              ![Get] = NavMapOf(routes)
                       \o IF anon THEN <<<<RouteMeta(<<"/", "4">>, "", "")>>>> ELSE <<>>,
              ![Post] = <<<<RouteMeta(<<"/", "a">>, "h5", "text/plain")>>>>]
    /\ \E auth \in SUBSET {"h1"}, params \in NavParams :
          registry = [BaseRegistry EXCEPT !.authorization = auth,
                                          !.params = [h \in Handlers |-> params]]
    /\ \E cap \in {<<FALSE, TRUE>>, <<TRUE, TRUE>>, <<TRUE, FALSE>>} :
          container = [BaseContainer EXCEPT !.hasAuthorization = cap[1], !.isAuth = cap[2]]
    /\ \E method \in NavMethods, path \in NavPaths, status \in {0, NotFoundCode} :
          ctx = [BaseCtx EXCEPT !.method = method, !.url = thisUrl \o path, !.status = status,
                                !.reqBody = ("name" :> "n1")]
    /\ decorator = Get
    /\ pc = "start"
    /\ Fresh

NextNav == NavigatingStart \/ HandlerSettles \/ SendValueSettles \/ NextSettles

SpecNav == InitNav /\ [][NextNav]_vars

\* A call of navigating runs to its first await at once; the promises it then
\* waits for (handler, sendValue, next) settle, and the event loop runs the
\* continuation of each
InitNavLive ==
    /\ thisUrl = <<"/", "u">>
    /\ methodMaps = [NoMaps EXCEPT
           ![Get] = MapOf(<<<<"/", "a">>, <<"/", "a", "/", ":", "i">>>>, FALSE)]
    /\ registry = [BaseRegistry EXCEPT !.authorization = {"h1"},
                                       !.params = [h \in Handlers |-> <<"Number">>]]
    /\ \E isAuth \in BOOLEAN :
          container = [BaseContainer EXCEPT !.hasAuthorization = TRUE, !.isAuth = isAuth]
    /\ \E method \in {"GET", "OPTIONS"},
          path \in {<<"/", "a">>, <<"/", "a", "/", "4", "2">>, <<"/", "4">>} :
          ctx = [BaseCtx EXCEPT !.method = method, !.url = thisUrl \o path,
                                !.reqBody = ("name" :> "n1")]
    /\ decorator = Get
    /\ pc = "start"
    /\ Fresh

SpecNavLive ==
    /\ InitNavLive
    /\ [][NextNav]_vars
    /\ WF_vars(HandlerSettles)
    /\ WF_vars(SendValueSettles)
    /\ WF_vars(NextSettles)

(***************************************************************************)
(* CORS: one request through options / invokeOption                        *)
(***************************************************************************)
CorsMethods == {"OPTIONS", "options", "GET"}
Origins == {<<>>, <<"https://a.com">>}
RequestedMethods == {"", "GET", "POST", "PUT", "DELETE"}
RequestedHeaders == {<<>>, <<"X-Bar">>}
CorsPaths == {<<"/", "a">>, <<"/", "4">>}
\* the CORS metadata a handler or a controller can declare
CorsMetadatas == {NoKeys,
                  "allowHeaders" :> ArrayOf(<<"X-Foo">>),
                  ("allowHeaders" :> ArrayOf(<<"X-Foo", "X-Baz">>)) @@ ("maxAge" :> 600),
                  ("allowMethods" :> ArrayOf(<<RM("Get"), RM("Put")>>)) @@ ("credentials" :> TRUE)}
\* a handler declared with @Cors twice
TwoCorsMetadatas == <<"allowHeaders" :> ArrayOf(<<"X-One">>), "maxAge" :> 30>>
\* the CORS metadata declared on the controller class
TypeCorsMetadatas == {NoKeys, ("allowHeaders" :> ArrayOf(<<"X-Type">>)) @@ ("maxAge" :> 5)}
\* the global corsOptions of the configuration
GlobalOptions == {NoKeys,
                  "allowMethods" :> StringOf(<<"GET", ",", "POST">>),
                  ("credentials" :> TRUE) @@ ("exposeHeaders" :> <<"X-Exp">>)
                      @@ ("keepHeadersOnError" :> TRUE)}

InitCors ==
    /\ thisUrl = <<"/", "u">>
    /\ \E buckets \in SUBSET {Get, Post, Put} :
          methodMaps = [d \in Decorators |->
                           IF d \in buckets THEN <<<<RouteMeta(<<"/", "a">>, "h1", "")>>>> ELSE <<>>]
    /\ \E ofMethod \in SeqsUpTo(1, CorsMetadatas) \cup {TwoCorsMetadatas},
          ofType \in SeqsUpTo(1, TypeCorsMetadatas) :
          registry = [BaseRegistry EXCEPT
                         !.corsMethod = IF ofMethod = <<>> THEN NoKeys ELSE ("h1" :> ofMethod),
                         !.corsType = ofType]
    /\ \E has \in BOOLEAN, global \in GlobalOptions :
          container = [BaseContainer EXCEPT
                          !.config = [hasCorsOptions |-> has,
                                      corsOptions |-> IF has THEN global ELSE NoKeys]]
    /\ \E method \in CorsMethods, origin \in Origins, acrm \in RequestedMethods,
          acrh \in RequestedHeaders, path \in CorsPaths :
          ctx = [BaseCtx EXCEPT !.method = method, !.url = thisUrl \o path, !.origin = origin,
                                !.acrm = acrm, !.acrh = acrh]
    /\ decorator = Get
    /\ pc = "option"
    /\ Fresh

NextCors == InvokeOption \/ OptionNextSettles

SpecCors == InitCors /\ [][NextCors]_vars

(***************************************************************************)
(* Parameter binding: createProvider for requests with the same URL and    *)
(* body, one after the other                                               *)
(***************************************************************************)
BindPatterns == {<<"/", "a">>, <<"/", "a", "/", ":", "i">>, <<"/", ":", "i">>}
BindPaths == {<<"/", "a">>, <<"/", "a", "/", "4", "2">>, <<"/", "a", "/", "4", "2", "/", "o">>,
              <<"/", "a", "/", "b">>, <<"/", "a", "/">>, <<"/", "7">>}
BindTypes == {"String", "Number", "Boolean", "Model", "Func", "Sym"}
Bodies == {NoKeys, "name" :> "n1", ("name" :> "n1") @@ ("extra" :> "x"), "age" :> "7"}
Instances == {NewInstance, "name" :> "old"}
MaxParams == 2

InitBind ==
    /\ thisUrl \in Mounts
    /\ \E route \in BindPatterns, path \in BindPaths, body \in Bodies :
          /\ methodMaps = [NoMaps EXCEPT ![Get] = <<<<RouteMeta(route, "h1", "")>>>>]
          /\ ctx = [BaseCtx EXCEPT !.url = thisUrl \o path, !.reqBody = body]
    /\ meta = getRouteMetaData(ctx.url, thisUrl, methodMaps, Get)
    /\ meta.defined
    /\ \E params \in SeqsUpTo(MaxParams, BindTypes), fields \in {{"name"}, {"name", "age"}} :
          registry = [BaseRegistry EXCEPT !.params = [h \in Handlers |-> params],
                                          !.fields = fields]
    /\ \E single \in BOOLEAN, inst \in Instances :
          container = [BaseContainer EXCEPT !.singleton = single, !.instance = inst]
    /\ decorator = Get
    /\ pc = "bind"
    /\ calls = NoCalls
    /\ outcome = "pending"
    /\ bound = <<>>
    /\ fault = NoFault
    /\ response = NoResponse
    /\ headersSet = NoKeys
    /\ rejection = NoRejection
    /\ orders = getDefault
    /\ chainOp = NoChainOp
    /\ builder = NoBuilder
    /\ pair = NoPair

\* createProvider as invoke calls it (line 151) for a matched request
Bind ==
    /\ pc = "bind"
    /\ Len(bound) < MaxBinds
    /\ LET params == HandlerParams(meta.propertyKey)
       IN  /\ bound' = Append(bound, createProvider(container, meta, params, ctx.url, thisUrl,
                                                    ctx.reqBody, registry.fields))
           /\ container' = ContainerAfterBind(container, params, ctx.reqBody, registry.fields)
    /\ calls' = [calls EXCEPT !.createProvider = @ + 1]
    /\ UNCHANGED <<builder, pair, orders, chainOp, thisUrl, methodMaps, registry, ctx, decorator, meta, pc, outcome, fault,
                   response, headersSet, rejection>>

NextBind == Bind

SpecBind == InitBind /\ [][NextBind]_vars

(***************************************************************************)
(* The middleware chain at setup time: calls of use, useBefore, useAfter   *)
(* and insertByMeta, one middleware per call                               *)
(***************************************************************************)
\* the metadata insertByMeta is called with directly
ChainMetas == {MiddlewareMeta(n, b, a) : n \in {"a", "b"}, b \in {"", "a", "z"},
                                         a \in {"", "a", "z"}}
ChainClasses == {"ClassA", "ClassB"}

InitChain ==
    /\ thisUrl = <<>>
    /\ methodMaps = NoMaps
    /\ registry = BaseRegistry
    /\ container = BaseContainer
    /\ ctx = BaseCtx
    /\ decorator = Get
    /\ pc = "setup"
    /\ Fresh

\* lines 87-97
Use ==
    /\ pc = "setup"
    /\ Len(orders) < MaxChain
    /\ \E mdl \in MiddlewareTypes :
          /\ orders' = IF isMiddlewareToken(mdl) THEN insert(orders, mdl)
                       ELSE IF isHandlerFunction(mdl)
                       THEN Append(orders, OrderMiddleware("", mdl))
                       ELSE orders
          /\ chainOp' = ChainOp("use", mdl, "", getMiddlewareMeta(MiddlewareDecorator), FALSE)
    /\ UNCHANGED <<builder, pair, thisUrl, methodMaps, registry, container, ctx, decorator, meta, pc, calls,
                   outcome, bound, fault, response, headersSet, rejection>>

\* useBefore and useAfter (lines 143-163); reading .name of a missing
\* metadata throws before the chain is touched
UseRelative(op, middleware, match) ==
    IF match # ""
    THEN LET relmeta == getMiddlewareMeta(match)
             curMeta == getMiddlewareMeta(middleware)
             m == IF op = "useBefore" THEN MiddlewareMeta(curMeta.name, relmeta.name, "")
                  ELSE MiddlewareMeta(curMeta.name, "", relmeta.name)
         IN  IF relmeta.defined /\ curMeta.defined
             THEN /\ orders' = insertByMeta(orders, m, middleware)
                  /\ chainOp' = ChainOp(op, middleware, match, m, FALSE)
             ELSE /\ orders' = orders
                  /\ chainOp' = ChainOp(op, middleware, match, NullMeta, TRUE)
    ELSE /\ orders' = insert(orders, middleware)
         /\ chainOp' = ChainOp(op, middleware, match, getMiddlewareMeta(MiddlewareDecorator),
                               FALSE)

\* lines 143-152
UseBefore ==
    /\ pc = "setup"
    /\ Len(orders) < MaxChain
    /\ \E middleware \in MiddlewareTypes, match \in MiddlewareTypes \cup {""} :
          UseRelative("useBefore", middleware, match)
    /\ UNCHANGED <<builder, pair, thisUrl, methodMaps, registry, container, ctx, decorator, meta, pc, calls,
                   outcome, bound, fault, response, headersSet, rejection>>

\* lines 154-163
UseAfter ==
    /\ pc = "setup"
    /\ Len(orders) < MaxChain
    /\ \E middleware \in MiddlewareTypes, match \in MiddlewareTypes \cup {""} :
          UseRelative("useAfter", middleware, match)
    /\ UNCHANGED <<builder, pair, thisUrl, methodMaps, registry, container, ctx, decorator, meta, pc, calls,
                   outcome, bound, fault, response, headersSet, rejection>>

\* lines 121-141, called on the chain itself
InsertByMeta ==
    /\ pc = "setup"
    /\ Len(orders) < MaxChain
    /\ \E m \in ChainMetas, middleware \in ChainClasses :
          /\ orders' = insertByMeta(orders, m, middleware)
          /\ chainOp' = ChainOp("insertByMeta", middleware, "", m, FALSE)
    /\ UNCHANGED <<builder, pair, thisUrl, methodMaps, registry, container, ctx, decorator, meta, pc, calls,
                   outcome, bound, fault, response, headersSet, rejection>>

NextChain == Use \/ UseBefore \/ UseAfter \/ InsertByMeta

SpecChain == InitChain /\ [][NextChain]_vars

(***************************************************************************)
(* Properties of the route matcher (SpecMatch)                             *)
(***************************************************************************)
\* the request path the matcher compares with, and the entries it compares
routPath == RoutPath(ctx.url, thisUrl)
Candidates == Flatten(methodMaps[decorator])
StaticPrefix(route) == Substr(route, 0, IndexOf(route, RestMark))
Compatible(e) == RestMatches(e, routPath)
ExactAt == {i \in 1..Len(Candidates) : Candidates[i].route = routPath}

\* C1: when exactly one entry of the selected bucket has a route equal to the
\* normalized request path, getRouteMetaData returns that entry, whatever
\* REST patterns are declared beside it.
C1_ExactMatchWins ==
    (pc = "matched" /\ Cardinality(ExactAt) = 1)
        => meta = Candidates[CHOOSE i \in ExactAt : TRUE]

\* an exact entry is returned although a longer REST pattern that the path
\* is compatible with sorts before it
C1_Witness ==
    /\ pc = "matched"
    /\ Cardinality(ExactAt) = 1
    /\ \E i \in 1..Len(Candidates) :
          /\ Compatible(Candidates[i])
          /\ Len(Candidates[i].route) > Len(routPath)
    /\ meta.route = routPath

\* C2 (as claimed): with no exact match and two or more compatible REST
\* patterns, the returned candidate has the longest static prefix among them.
C2_LongestStaticPrefix ==
    LET comp == {i \in 1..Len(Candidates) : Compatible(Candidates[i])}
    IN  (pc = "matched" /\ ExactAt = {} /\ Cardinality(comp) >= 2)
            => /\ meta.defined
               /\ \A i \in comp :
                     Len(StaticPrefix(meta.route)) >= Len(StaticPrefix(Candidates[i].route))

(***************************************************************************)
(* Properties of normal dispatch (SpecNav)                                 *)
(***************************************************************************)
\* a collaborator (container, authorization service, handler, result value)
\* failed at the given stage
CollaboratorFailed(stage) ==
    fault.raised /\ fault.stage = stage /\ fault.message \in {e.message : e \in Thrown}

\* the request reached the authorization check and isAuth() returned false
AuthorizationDenied ==
    /\ container.hasAuthorization
    /\ ~container.isAuth
    /\ meta.defined
    /\ meta.propertyKey \in registry.authorization
    /\ calls.isAuth = 1
    /\ ~CollaboratorFailed("isAuth")

\* C3: when the container has an authorization capability, the matched
\* handler requires authorization and isAuth() returns false, the request
\* ends with the Unauthorized status and message, and getMethodParameters,
\* createProvider and the handler are not called at any point of the request.
C3_UnauthorizedBeforeSideEffects ==
    AuthorizationDenied
        => /\ pc = "done"
           /\ ctx.status = UnauthorizedCode
           /\ ctx.message = "Unauthorized"
           /\ calls.getMethodParameters = 0
           /\ calls.createProvider = 0
           /\ calls.invoke = 0
           /\ bound = <<>>

C3_Witness ==
    /\ AuthorizationDenied
    /\ pc = "done"
    /\ outcome = "resolved"
    /\ ctx.status = UnauthorizedCode
    /\ calls.getController = 1

\* the matcher, run on the bucket navigating selected, finds no entry or an
\* entry without propertyKey
NoEntry ==
    LET m == getRouteMetaData(ctx.url, thisUrl, methodMaps, decorator)
    IN  ~(m.defined /\ m.propertyKey # "")

\* C4: when getRouteMetaData finds no entry, or an entry without propertyKey,
\* navigating sets status 404, obtains no controller instance and invokes no
\* handler.
C4_NotFound ==
    (pc # "start" /\ decorator # Options /\ NoEntry /\ ~CollaboratorFailed("match"))
        => /\ pc = "done"
           /\ ctx.status = NotFoundCode
           /\ calls.getController = 0
           /\ calls.invoke = 0

\* an entry was found but it has no propertyKey
C4_Witness ==
    /\ pc = "done"
    /\ meta.defined
    /\ meta.propertyKey = ""
    /\ ctx.status = NotFoundCode
    /\ ctx.message = "Not Found"
    /\ calls.getController = 0

DispatchStages == {"match", "getController", "isAuth", "auth", "getMethodParameters", "bind",
                   "invoke", "sendValue"}

\* C5: a fault raised during matching, controller resolution, authorization,
\* binding, invocation or serialization never leaves navigating: its promise
\* resolves, an HttpError gives its code and message to the response, any
\* other fault gives status 500 and its message is not copied.
C5_FaultsAreTranslated ==
    (fault.raised /\ fault.stage \in DispatchStages)
        => /\ pc = "done"
           /\ outcome = "resolved"
           /\ rejection = NoRejection
           /\ IF fault.http
              THEN ctx.status = fault.code /\ ctx.message = fault.message
              ELSE ctx.status = InternalErrorStatus /\ ctx.message # fault.message

\* a handler that threw an HttpError
C5_Witness ==
    /\ pc = "done"
    /\ fault.stage = "invoke"
    /\ fault.http
    /\ ctx.status = ForbiddenCode
    /\ ctx.message = "Forbidden"
    /\ outcome = "resolved"

\* the decomposition of the request path the claim speaks of: the text behind
\* static prefix and '/', up to the next '/' or the end
SegmentAfter(prefix) ==
    LET after == SubSeq(routPath, Len(prefix) + 2, Len(routPath))
        slash == IndexOf(after, <<"/">>)
    IN  IF slash = -1 THEN after ELSE SubSeq(after, 1, slash)

\* C10 (as claimed): for a matched REST pattern with static prefix S and a
\* request path S/v..., the REST value is exactly v, it is bound to the
\* handler's one primitive parameter converted by its type, and the handler is
\* invoked exactly once.
C10_RestValueIsSegment ==
    LET S == StaticPrefix(meta.route)
        params == HandlerParams(meta.propertyKey)
    IN  (/\ pc \in {"awaitInvoke", "awaitSend", "awaitNext"}
         /\ isRestUri(meta.route)
         /\ SubSeq(routPath, 1, Len(S) + 1) = S \o <<"/">>
         /\ Len(params) = 1
         /\ params[1] \in {"String", "Number", "Boolean"})
            => /\ bound = <<<<[index |-> 0, null |-> FALSE,
                              value |-> Convert(params[1], SegmentAfter(S))]>>>>
               /\ calls.invoke = 1

\* C11 (as claimed): a request whose method is OPTIONS, in any letter case,
\* that enters navigating ends with the status of BadRequestError; no match
\* result is taken and no handler is invoked.
C11_OptionsIsBadRequest ==
    (pc # "start" /\ toUpperCase(ctx.method) = "OPTIONS")
        => /\ pc = "done"
           /\ ctx.status = BadRequestCode
           /\ meta = Undefined
           /\ calls.invoke = 0

\* the response carries what the handler returned
Populated ==
    CASE response.kind = "undefined" -> TRUE
      [] response.kind = "RedirectResult" ->
            Has(ctx.headers, "Location") /\ ctx.headers["Location"] = <<response.data>>
      [] OTHER -> ctx.body.data = response.data

\* a fault of the dispatch itself, not of the continuation
DispatchFaulted == fault.raised /\ fault.stage # "next"

NextCalledInOrder ==
    /\ calls.next <= 1
    /\ calls.next = 1 => (calls.invoke = 1 /\ ~DispatchFaulted /\ Populated)
    /\ (pc = "done" /\ ~DispatchFaulted) => calls.next = 1
    /\ DispatchFaulted
          => /\ calls.next = 0
             /\ pc = "done"
             /\ ctx.status = IF fault.http THEN fault.code ELSE InternalErrorStatus

\* C15: every call of navigating settles; on a successful dispatch next() is
\* called exactly once and only after the response is populated, on a faulted
\* dispatch next() is never called and the error status is set.
C15_NavigatingSettles ==
    /\ []NextCalledInOrder
    /\ (pc # "start") ~> (pc = "done" /\ outcome # "pending")

\* a request whose ResultValue was sent before next() was called and settled
C15_Witness ==
    /\ pc = "done"
    /\ outcome = "resolved"
    /\ ~fault.raised
    /\ response.kind = "JsonResult"
    /\ calls.sendValue = 1
    /\ calls.next = 1
    /\ ctx.body = response

\* the dispatch succeeded and the handler returned a value of the given kinds
Returned(kinds) ==
    /\ calls.next = 1
    /\ ~fault.raised
    /\ response.kind \in kinds

\* C16 (as claimed): after a successful invocation a string gives body = the
\* string and content type text/html, a plain object gives body = the object
\* and content type application/json, and a contentType declared on the route
\* metadata replaces either default.
C16_ContentTypeByKind ==
    Returned({"string", "object"})
        => /\ ctx.body = response
           /\ ctx.type = IF meta.contentType # "" THEN meta.contentType
                         ELSE IF isString(response) THEN "text/html"
                         ELSE "application/json"

\* C17 (as claimed): when the handler returns a Uint8Array the body is a
\* Buffer of its bytes, and the value does not go through the object branch,
\* which is the one that sets the content type.
C17_BinaryIsRawBytes ==
    Returned({"Uint8Array"})
        => /\ ctx.body = [kind |-> "Buffer", data |-> response.data]
           /\ ctx.type = BaseCtx.type

(***************************************************************************)
(* Properties of the CORS step (SpecCors)                                  *)
(***************************************************************************)
CorsHeaderNames == {"Access-Control-Allow-Origin", "Access-Control-Allow-Credentials",
                    "Access-Control-Max-Age", "Access-Control-Allow-Methods",
                    "Access-Control-Allow-Headers", "Access-Control-Expose-Headers"}

\* C6: an OPTIONS request with an Origin header and no
\* Access-Control-Request-Method header gets Vary: Origin, one call of next(),
\* no Access-Control-* header and no status 204.
C6_NotAPreflight ==
    (pc # "option" /\ ctx.method = "OPTIONS" /\ ctx.origin # <<>> /\ ctx.acrm = "")
        => /\ "Origin" \in ctx.vary
           /\ calls.next = 1
           /\ DOMAIN ctx.headers \cap CorsHeaderNames = {}
           /\ ctx.status # NoContentStatus

\* such a request on a route whose handler declares CORS metadata
C6_Witness ==
    /\ pc = "done"
    /\ ctx.method = "OPTIONS"
    /\ ctx.origin # <<>>
    /\ ctx.acrm = ""
    /\ methodMaps[Get] # <<>>
    /\ routPath = <<"/", "a">>
    /\ "h1" \in DOMAIN registry.corsMethod
    /\ calls.next = 1
    /\ ctx.vary = {"Origin"}

\* the CORS options in effect on the satisfied preflight
ResolvedOptions == ObjectAssign(GlobalCorsOptions, CorsMetas(meta.propertyKey)[1])
PreflightSatisfied ==
    /\ pc = "done"
    /\ ctx.method = "OPTIONS"
    /\ ctx.origin # <<>>
    /\ ctx.acrm # ""
    /\ ctx.status = NoContentStatus

\* C7: on a valid preflight whose resolved CORS options leave allowMethods
\* unset, Access-Control-Allow-Methods is exactly GET,HEAD,PUT,POST,DELETE,PATCH.
C7_DefaultAllowMethods ==
    (PreflightSatisfied /\ ~Has(ResolvedOptions, "allowMethods"))
        => /\ Has(ctx.headers, "Access-Control-Allow-Methods")
           /\ ctx.headers["Access-Control-Allow-Methods"] = DefaultAllowMethods

C7_Witness ==
    /\ PreflightSatisfied
    /\ ~Has(ResolvedOptions, "allowMethods")
    /\ Has(ResolvedOptions, "allowHeaders")
    /\ ctx.headers["Access-Control-Allow-Methods"] = DefaultAllowMethods

\* C18 (as claimed): on a satisfied preflight Access-Control-Max-Age is
\* emitted exactly when maxAge is configured in the resolved CORS options.
C18_MaxAgeOnlyIfConfigured ==
    PreflightSatisfied
        => (Has(ctx.headers, "Access-Control-Max-Age") <=> Has(ResolvedOptions, "maxAge"))

\* the CORS metadata declared on the matched handler, and the one the claim
\* selects: the handler's first, the controller's first only without one
MethodLevel ==
    IF meta.propertyKey \in DOMAIN registry.corsMethod
    THEN registry.corsMethod[meta.propertyKey] ELSE <<>>
Chosen == IF MethodLevel # <<>> THEN MethodLevel[1] ELSE registry.corsType[1]
\* the global options overlaid key by key with the chosen metadata
EffectiveKeys == DOMAIN GlobalCorsOptions \cup DOMAIN Chosen
Effective ==
    [k \in EffectiveKeys |-> IF k \in DOMAIN Chosen THEN Chosen[k] ELSE GlobalCorsOptions[k]]

HeaderIs(name, value) == Has(ctx.headers, name) /\ ctx.headers[name] = value

OptionsInEffect ==
    PreflightSatisfied
        => /\ HeaderIs("Access-Control-Allow-Origin", ctx.origin)
           /\ Has(ctx.headers, "Access-Control-Allow-Credentials")
                 <=> ("credentials" \in EffectiveKeys /\ Effective["credentials"] = TRUE)
           /\ HeaderIs("Access-Control-Allow-Methods", AllowMethodsString(Effective))
           /\ "maxAge" \in EffectiveKeys
                 => HeaderIs("Access-Control-Max-Age", <<ToString(Effective["maxAge"])>>)
           /\ AllowHeadersString(Effective, ctx) # <<>>
                 => HeaderIs("Access-Control-Allow-Headers", AllowHeadersString(Effective, ctx))

\* C19: on a preflight the options in effect are the global corsOptions
\* overlaid key by key with the first CORS metadata of the matched handler,
\* or with the first of the controller only when the handler declares none,
\* and the configuration's corsOptions object is never modified.
C19_MethodLevelOverControllerLevel ==
    /\ []OptionsInEffect
    /\ [][container'.config = container.config]_vars

\* handler and controller both declare CORS metadata, the handler twice, and
\* a global allowMethods is in force beside the handler's allowHeaders
C19_Witness ==
    /\ PreflightSatisfied
    /\ Len(MethodLevel) = 2
    /\ Len(registry.corsType) = 1
    /\ Has(registry.corsType[1], "allowHeaders")
    /\ Has(GlobalCorsOptions, "allowMethods")
    /\ ctx.headers["Access-Control-Allow-Headers"] = <<"X-One">>
    /\ ctx.headers["Access-Control-Allow-Methods"] = <<"GET", ",", "POST">>

\* a cross-origin request that is no OPTIONS request has passed invokeOption
SimpleCorsRequest ==
    /\ pc # "option"
    /\ toUpperCase(ctx.method) # "OPTIONS"
    /\ ctx.origin # <<>>
GlobalAsks(k) == Has(GlobalCorsOptions, k) /\ GlobalCorsOptions[k] = TRUE
\* the headers this step emits for such a request
EmittedNames ==
    {"Access-Control-Allow-Origin"}
        \cup (IF GlobalAsks("credentials") THEN {"Access-Control-Allow-Credentials"} ELSE {})
        \cup (IF Has(GlobalCorsOptions, "exposeHeaders")
              THEN {"Access-Control-Expose-Headers"} ELSE {})
Emitted ==
    [n \in EmittedNames |->
        CASE n = "Access-Control-Allow-Origin" -> ctx.origin
          [] n = "Access-Control-Allow-Credentials" -> <<"true">>
          [] OTHER -> GlobalCorsOptions["exposeHeaders"]]
\* the error with the emitted headers laid over its own
WithEmitted(err) ==
    [err EXCEPT !.headers = [n \in DOMAIN err.headers \cup EmittedNames |->
                                IF n \in EmittedNames THEN Emitted[n] ELSE err.headers[n]]]

\* C20: for a non-OPTIONS request with an Origin the step sets Allow-Origin,
\* and Allow-Credentials / Expose-Headers when the global options ask for
\* them, and calls next(); when next() fails the error propagates with the
\* emitted headers added to its own if keepHeadersOnError is set, and as it
\* is otherwise.
C20_SimpleRequestHeaders ==
    SimpleCorsRequest
        => /\ DOMAIN ctx.headers \cap CorsHeaderNames = EmittedNames
           /\ \A n \in EmittedNames : HeaderIs(n, Emitted[n])
           /\ calls.next = 1
           /\ outcome = "rejected"
                 => \E err \in DownstreamErrors :
                       rejection = IF GlobalAsks("keepHeadersOnError") THEN WithEmitted(err)
                                   ELSE err

\* next() failed with an error that had headers of its own, one of them in
\* conflict with an emitted one
C20_Witness ==
    /\ SimpleCorsRequest
    /\ GlobalAsks("keepHeadersOnError")
    /\ outcome = "rejected"
    /\ Has(rejection.headers, "X-Trace")
    /\ rejection.headers["Access-Control-Allow-Origin"] = ctx.origin
    /\ Has(rejection.headers, "Access-Control-Expose-Headers")

\* the bucket of the handlers declared for a method
OwnBucket(m) ==
    CASE m = "GET" -> Get
      [] m = "POST" -> Post
      [] m = "PUT" -> Put
      [] m = "DELETE" -> Delete
      [] OTHER -> Options

\* C8 (as claimed): on a preflight with Origin O and requested method M, when
\* M's bucket holds a handler for the path and CORS metadata with allowHeaders
\* resolves for it, the response has status 204, Allow-Origin O, Allow-Headers
\* the configured list joined by commas, and next() is never called.
C8_PreflightAnswered ==
    LET target == getRouteMetaData(ctx.url, thisUrl, methodMaps, OwnBucket(ctx.acrm))
        metas == CorsMetas(target.propertyKey)
        options == ObjectAssign(GlobalCorsOptions, metas[1])
    IN  (/\ pc # "option"
         /\ ctx.method = "OPTIONS"
         /\ ctx.origin # <<>>
         /\ ctx.acrm # ""
         /\ target.defined
         /\ target.propertyKey # ""
         /\ metas # <<>>
         /\ Has(options, "allowHeaders")
         /\ options.allowHeaders.array)
            => /\ ctx.status = NoContentStatus
               /\ Has(ctx.headers, "Access-Control-Allow-Origin")
               /\ ctx.headers["Access-Control-Allow-Origin"] = ctx.origin
               /\ Has(ctx.headers, "Access-Control-Allow-Headers")
               /\ ctx.headers["Access-Control-Allow-Headers"] = Join(options.allowHeaders.items)
               /\ calls.next = 0

(***************************************************************************)
(* Properties of parameter binding (SpecBind)                              *)
(***************************************************************************)
\* C9: binding the same matched route and parameter list against the same
\* URL and body again yields an argument list with the same indexes and
\* values as before, also when the container hands out the same instance.
C9_BindingIsIdempotent ==
    \A i, j \in 1..Len(bound) : bound[i] = bound[j]

\* two bindings of a shared instance whose field the body overwrote, beside a
\* converted REST value
C9_Witness ==
    /\ Len(bound) = 2
    /\ container.singleton
    /\ \E k \in 1..Len(bound[2]) :
          /\ bound[2][k].value.kind = "Model"
          /\ bound[2][k].value.fields = ("name" :> "n1")
    /\ \E k \in 1..Len(bound[2]) : bound[2][k].value = ParseFloat(<<"4", "2">>)

(***************************************************************************)
(* Properties of bucket selection (SpecBucket)                             *)
(***************************************************************************)
\* the verbs that have a bucket of their own, and the bucket a method string
\* is expected to select
OwnVerbs == {"GET", "POST", "PUT", "DELETE", "OPTIONS"}
UpperCaseMethods == {m \in MethodStrings : toUpperCase(m) = m}
ExpectedBucket(m) == IF m \in OwnVerbs THEN OwnBucket(m) ELSE Get

\* C12 (as claimed): the selected bucket is the method's own, Get only for an
\* unrecognized or missing method, for the string of ctx.method and for the
\* RequestMethod parsed off the preflight header alike; the matched entry is
\* one declared in that bucket.
C12_MethodSelectsOwnBucket ==
    LET m == IF pc = "selectedByMethod" THEN ctx.method ELSE ctx.acrm
    IN  (pc \in {"selectedByMethod", "selectedByRequested"} /\ m \in UpperCaseMethods)
            => /\ decorator = ExpectedBucket(m)
               /\ meta.defined => meta.propertyKey = BucketHandler(ExpectedBucket(m))

(***************************************************************************)
(* Properties of the middleware chain (SpecChain)                          *)
(***************************************************************************)
\* the last call inserted an entry through insertByMeta
Inserted ==
    /\ chainOp.op \in {"insertByMeta", "useBefore", "useAfter"}
    /\ ~chainOp.thrown
    /\ chainOp.meta.defined
NewEntry == OrderMiddleware(chainOp.meta.name, chainOp.middleware)
\* the positions (1-based) of the chain before the call that hold an entry named n
Named(n) == {i \in 1..Len(chainOp.chain) : chainOp.chain[i].name = n}

\* C13: right after insertByMeta, or useBefore(m, X), has inserted an entry
\* with before = X and no after into a chain that holds an entry named X, the
\* new entry sits at the index of the first X of the chain before the call
\* and that X follows it directly.
C13_BeforeIsDirectlyBefore ==
    (/\ Inserted
     /\ chainOp.meta.before # ""
     /\ chainOp.meta.after = ""
     /\ Named(chainOp.meta.before) # {})
        => LET i == Min(Named(chainOp.meta.before))
           IN  /\ Len(orders) = Len(chainOp.chain) + 1
               /\ orders[i] = NewEntry
               /\ orders[i + 1] = chainOp.chain[i]
               /\ \A j \in 1..(i - 1) : orders[j] = chainOp.chain[j]

\* useBefore placed a middleware between two entries of the chain
C13_Witness ==
    /\ Inserted
    /\ chainOp.op = "useBefore"
    /\ chainOp.middleware = "ClassB"
    /\ chainOp.meta.before = "a"
    /\ Len(chainOp.chain) = 2
    /\ Named("a") = {2}
    /\ orders[2] = NewEntry
    /\ orders[3].name = "a"

\* the tokens of classes declared with @Middleware
DeclaredMiddlewares == {w \in MiddlewareTypes : isMiddlewareClass(w) /\ getTypeMetadata(w) # <<>>}

\* C14 (as claimed): after use(m) with a token m of a class declared with
\* @Middleware, getChain() contains m at the position its own metadata
\* dictates.
C14_UsedMiddlewareIsInChain ==
    (chainOp.op = "use" /\ chainOp.middleware \in DeclaredMiddlewares)
        => /\ \E i \in 1..Len(getChain) : getChain[i] = chainOp.middleware
           /\ orders = insertByMeta(chainOp.chain, First(getTypeMetadata(chainOp.middleware)),
                                    chainOp.middleware)

(***************************************************************************)
(* Further properties of parameter binding (SpecBind)                      *)
(***************************************************************************)
\* the declared parameters of the matched handler, those createProvider takes
\* for primitive-like, and the REST value extracted for the request
BoundParams == HandlerParams(meta.propertyKey)
PrimitiveLike == {i \in 1..Len(BoundParams) : isBaseType(BoundParams[i])}
Extracted == RestValue(meta, ctx.url, thisUrl)
\* the entries a binding holds for the parameter declared at position i
EntriesOf(list, i) == {k \in 1..Len(list) : list[k].index = i - 1}
\* the value a primitive parameter type makes of the REST value
Primitive(p, v) ==
    CASE p = "String" -> StringValue(v)
      [] p = "Number" -> ParseFloat(v)
      [] p = "Boolean" -> BooleanObject(v)

C22_NoPlaceholderEntries ==
    \A b \in 1..Len(bound) :
        /\ \A k \in 1..(Len(bound[b]) - 1) : bound[b][k].index < bound[b][k + 1].index
        /\ \A i \in 1..Len(BoundParams) :
              (~isBaseType(BoundParams[i]) /\ ~isClass(BoundParams[i]))
                  => EntriesOf(bound[b], i) = {}
        /\ \A i \in PrimitiveLike :
              (Extracted.null \/ i # Min(PrimitiveLike)) => EntriesOf(bound[b], i) = {}
        /\ \A k \in 1..Len(bound[b]) : bound[b][k].value # UndefinedValue

\* what the claim leaves on an instance: the declared fields the body has,
\* from the body; everything else as it was
ExpectedFields(prior, fields, body) ==
    [n \in DOMAIN prior \cup {f \in fields : f \in DOMAIN body} |->
        IF n \in fields /\ n \in DOMAIN body THEN body[n] ELSE prior[n]]

FieldsAreBound ==
    Len(bound') > Len(bound)
        => \A k \in 1..Len(bound'[Len(bound')]) :
              bound'[Len(bound')][k].value.kind = "Model"
                  => bound'[Len(bound')][k].value.fields
                        = ExpectedFields(GetInstance(container), registry.fields, ctx.reqBody)

\* C23: for an injectable class parameter createProvider sets on the instance
\* the container provides exactly the declared fields whose key the body
\* has; declared fields absent from the body keep their prior value and body
\* keys that are no declared field are not copied.
C23_OnlyDeclaredFieldsAreCopied == [][FieldsAreBound]_vars

\* a shared instance with a prior name, bound against a body that has the
\* declared field age and not the declared field name
C23_Witness ==
    /\ Len(bound) = 1
    /\ container.singleton
    /\ registry.fields = {"name", "age"}
    /\ ctx.reqBody = ("age" :> "7")
    /\ \E k \in 1..Len(bound[1]) :
          /\ bound[1][k].value.kind = "Model"
          /\ bound[1][k].value.fields = ("name" :> "old") @@ ("age" :> "7")

(***************************************************************************)
(* Further properties of the middleware chain (SpecChain)                  *)
(***************************************************************************)
\* the chain with e put at position k (1-based), and with position k taken out
InsertAt(chain, k, e) == SubSeq(chain, 1, k - 1) \o <<e>> \o SubSeq(chain, k, Len(chain))
RemoveAt(chain, k) == SubSeq(chain, 1, k - 1) \o SubSeq(chain, k + 1, Len(chain))
\* a call that inserted an entry with before = X and no after
InsertedBefore(op, X) ==
    /\ op.op \in {"insertByMeta", "useBefore", "useAfter"}
    /\ ~op.thrown
    /\ op.meta.defined
    /\ op.meta.before = X
    /\ op.meta.after = ""

\* A went in before X, whose name it does not bear, and B follows with the
\* same constraint
SameConstraintTwice ==
    LET X == chainOp.meta.before
        i == Min(Named(X))
    IN  (/\ X # ""
         /\ InsertedBefore(chainOp, X)
         /\ Named(X) # {}
         /\ chainOp.meta.name # X
         /\ chainOp' # chainOp
         /\ InsertedBefore(chainOp', X))
            => /\ Len(orders) = Len(chainOp.chain) + 1
               /\ Len(orders') = Len(orders) + 1
               /\ orders'[i] = NewEntry
               /\ orders'[i + 1] = OrderMiddleware(chainOp'.meta.name, chainOp'.middleware)
               /\ orders'[i + 2] = chainOp.chain[i]
               /\ RemoveAt(orders, i) = chainOp.chain
               /\ RemoveAt(orders', i + 1) = orders

C27_AfterDecides ==
    (Inserted /\ chainOp.chain # <<>>)
        => /\ chainOp.meta.after # ""
                 => orders = InsertAt(chainOp.chain,
                                      IF Named(chainOp.meta.after) # {}
                                      THEN Min(Named(chainOp.meta.after)) + 1 ELSE 1,
                                      NewEntry)
           /\ (chainOp.meta.after = "" /\ chainOp.meta.before # ""
                  /\ Named(chainOp.meta.before) = {})
                 => orders = Append(chainOp.chain, NewEntry)

\* before names the second entry, after names no entry: the new entry is first
C27_Witness ==
    /\ Inserted
    /\ chainOp.meta.before = "a"
    /\ chainOp.meta.after = "z"
    /\ Len(chainOp.chain) = 2
    /\ Named("a") = {2}
    /\ orders[1] = NewEntry
    /\ orders[3] = chainOp.chain[2]

(***************************************************************************)
(* The second matching pass (SpecMatch)                                    *)
(***************************************************************************)
\* path begins with prefix, character by character
StartsWith(path, prefix) ==
    /\ Len(prefix) <= Len(path)
    /\ \A k \in 1..Len(prefix) : path[k] = prefix[k]

\* e is a REST pattern whose static prefix is a proper plain-string prefix of
\* the request path
PlainPrefixMatch(e) ==
    /\ \E k \in 1..(Len(e.route) - 1) : e.route[k] = "/" /\ e.route[k + 1] = ":"
    /\ StaticPrefix(e.route) # routPath
    /\ StartsWith(routPath, StaticPrefix(e.route))

\* C26: with no exact match, the matcher returns an entry exactly when some
\* REST pattern's static prefix differs from the request path and the path
\* starts with it as a plain string, and the entry returned is such a pattern;
\* a pattern with an empty static prefix is what a non-empty path gets when
\* no longer REST pattern matches.
C26_PlainPrefixTest ==
    (pc = "matched" /\ ExactAt = {})
        => /\ meta.defined <=> \E i \in 1..Len(Candidates) : PlainPrefixMatch(Candidates[i])
           /\ meta.defined => PlainPrefixMatch(meta)
           /\ \A i \in 1..Len(Candidates) :
                 (/\ Candidates[i].route = <<"/", ":", "i">>
                  /\ routPath # <<>>
                  /\ \A j \in 1..Len(Candidates) :
                        Len(Candidates[j].route) > 3 => ~PlainPrefixMatch(Candidates[j]))
                     => meta = Candidates[Min({j \in 1..Len(Candidates) :
                                                  Candidates[j].route = Candidates[i].route})]

\* '/ab' is matched by '/a/:i' although '/a' is declared, too, and '/a'
\* itself would not have been
C26_Witness ==
    /\ pc = "matched"
    /\ routPath = <<"/", "a", "b">>
    /\ meta.defined
    /\ meta.route = <<"/", "a", "/", ":", "i">>
    /\ \E i \in 1..Len(Candidates) : Candidates[i].route = <<"/", "a">>
    /\ ~PlainPrefixMatch([meta EXCEPT !.route = <<"/", "a">>])

(***************************************************************************)
(* Rejections of the continuation (SpecNav)                                *)
(***************************************************************************)
\* the step in which the promise that next() returned rejects
NextRejected ==
    (pc = "awaitNext" /\ rejection'.rejected)
        => /\ ctx' = ctx
           /\ fault' = fault
           /\ outcome' = "rejected"
           /\ rejection' \in DownstreamErrors
           /\ pc' = "done"

\* no catch block has run for a request whose promise rejected
Untranslated ==
    outcome = "rejected"
        => /\ ~fault.raised
           /\ rejection \in DownstreamErrors
           /\ calls.next = 1
           /\ ctx.status \in {0, NotFoundCode, RedirectStatus}
           /\ ctx.message = ""

\* C28: when the promise that next() returned after a successful dispatch
\* rejects, navigating's catch block does not run: ctx is left as dispatch
\* left it (no status 500, no error code, no message) and the promise of
\* navigating rejects with that same error.
C28_DownstreamRejectionPassesThrough == []Untranslated /\ [][NextRejected]_vars

\* a handler ran, its string went to ctx.body, and next() rejected
C28_Witness ==
    /\ pc = "done"
    /\ outcome = "rejected"
    /\ rejection \in DownstreamErrors
    /\ calls.invoke = 1
    /\ calls.next = 1
    /\ isString(response)
    /\ ctx.body = response
    /\ ctx.status = 0

(***************************************************************************)
(* Router.setup and Configuration.isRouteUrl                               *)
(***************************************************************************)
\* \w of a regular expression, over the characters urls are written with
WordChars == {"a", "b", "c", "j", "s", "u", "x", "4", "2", "_"}
\* (\w|%|\.)
SegmentChars == WordChars \cup {"%", "."}
\* . of a regular expression: any character but a line terminator
LineTerminators == {"\n", "\r"}

\* routeUrlRegExp = /\/((\w|%|\.))+.\w+$/ (Configuration.ts:230): somewhere a
\* '/', one or more of (\w|%|\.), any one character, one or more \w, the end
routeUrlRegExpTest(url) ==
    \E p \in 1..Len(url) : \E k \in 1..Len(url) :
        /\ url[p] = "/"
        /\ p + k + 1 < Len(url)
        /\ \A q \in (p + 1)..(p + k) : url[q] \in SegmentChars
        /\ url[p + k + 1] \notin LineTerminators
        /\ \A q \in (p + k + 2)..Len(url) : url[q] \in WordChars

\* Configuration.ts:231-233
isRouteUrl(ctxUrl) == ~routeUrlRegExpTest(ctxUrl)

RouterUrls == {<<"/">>,
               <<"/", "u">>,
               <<"/", "u", "/", "a">>,
               <<"/", "u", "/", "a", "b">>,
               <<"/", "a", "b", "c">>,
               <<"/", "u", "/", "a", "/", "4", "2">>,
               <<"/", "a", ".", "j", "s">>,
               <<"/", "a", ".", "j">>,
               <<"/", "a", "-", "b">>,
               <<"/", "a", "-", "b", "c">>,
               <<"/", "%", "4", "2">>,
               <<"/", "u", "/", "a", "?", "x">>,
               <<"/", "u", "/", "a", "?", "x", "=", "4">>}

OkStatus == 200
RouterStatuses == {0, NotFoundCode, OkStatus, NoContentStatus, RedirectStatus, InternalErrorStatus}

\* a request arrives at the middleware that Router.setup installed
InitRouter ==
    /\ thisUrl \in Mounts
    /\ methodMaps = NoMaps
    /\ registry = BaseRegistry
    /\ container = BaseContainer
    /\ \E url \in RouterUrls, status \in RouterStatuses :
          ctx = [BaseCtx EXCEPT !.url = url, !.status = status]
    /\ decorator = Get
    /\ pc = "router"
    /\ Fresh

\* a router that passes on to the next middleware what it does not dispatch
RouterMiddleware_PassesOn ==
    /\ pc = "router"
    /\ IF (ctx.status = 0 \/ ctx.status = NotFoundCode) /\ isRouteUrl(ctx.url)
       THEN /\ calls' = [calls EXCEPT !.navigating = @ + 1]
            /\ pc' = "rootNavigating"
            /\ UNCHANGED outcome
       ELSE /\ calls' = [calls EXCEPT !.next = @ + 1]
            /\ pc' = "awaitNext"
            /\ UNCHANGED outcome
    /\ UNCHANGED <<builder, pair, orders, chainOp, thisUrl, methodMaps, registry, container, ctx, decorator, meta,
                   bound, fault, response, headersSet, rejection>>

\* the middleware of Router.setup (part_008:51-57)
RouterMiddleware ==
    /\ pc = "router"
    /\ IF (ctx.status = 0 \/ ctx.status = NotFoundCode) /\ isRouteUrl(ctx.url)
       THEN /\ calls' = [calls EXCEPT !.navigating = @ + 1]
            /\ pc' = "rootNavigating"
            /\ UNCHANGED outcome
       ELSE /\ pc' = "done"
            /\ outcome' = "resolved"
            /\ UNCHANGED calls
    /\ UNCHANGED <<builder, pair, orders, chainOp, thisUrl, methodMaps, registry, container, ctx, decorator, meta,
                   bound, fault, response, headersSet, rejection>>

\* root.navigating(container, ctx, next), a route tree the router only calls
\* (part_008:54): it may set a status, and it calls next() or answers itself
RootNavigating ==
    /\ pc = "rootNavigating"
    /\ \E status \in {ctx.status, BadRequestCode, InternalErrorStatus} :
          ctx' = [ctx EXCEPT !.status = status]
    /\ \/ /\ calls' = [calls EXCEPT !.next = @ + 1]
          /\ pc' = "awaitNext"
          /\ UNCHANGED outcome
       \/ /\ pc' = "done"
          /\ outcome' = "resolved"
          /\ UNCHANGED calls
    /\ UNCHANGED <<builder, pair, orders, chainOp, thisUrl, methodMaps, registry, container, decorator, meta,
                   bound, fault, response, headersSet, rejection>>

NextRouter == RouterMiddleware \/ RootNavigating \/ NextSettles

SpecRouter == InitRouter /\ [][NextRouter]_vars

\* the status and the url the request came with are those of ctx until
\* root.navigating has run
Arrived == calls.navigating = 0
Dispatchable == (ctx.status = 0 \/ ctx.status = NotFoundCode) /\ isRouteUrl(ctx.url)

\* C29: the router middleware hands a request to root.navigating only when
\* ctx.status is unset or 404 and config.isRouteUrl(ctx.url) holds; otherwise
\* it returns without dispatching and without calling next().
C29_RouterGuard ==
    /\ (pc # "router" /\ Arrived)
          => /\ ~Dispatchable
             /\ pc = "done"
             /\ outcome = "resolved"
             /\ calls = NoCalls
    /\ calls.navigating <= 1
    /\ (pc = "rootNavigating") => (calls.navigating = 1 /\ Dispatchable /\ calls.next = 0)
    /\ (pc = "router") => calls = NoCalls

\* a request for /a.js with status 404 has passed the router: neither
\* root.navigating nor next() was called
C29_Witness ==
    /\ pc = "done"
    /\ ctx.url = <<"/", "a", ".", "j", "s">>
    /\ ctx.status = NotFoundCode
    /\ ~isRouteUrl(ctx.url)
    /\ calls.navigating = 0
    /\ calls.next = 0
    /\ outcome = "resolved"

(***************************************************************************)
(* WebHostBuilder: the calls made on a builder up to run()                 *)
(***************************************************************************)
MaxMiddlewares == 3

\* a Defer (createDefer): its promise is pending until resolve is called
NoDefer == [defined |-> FALSE, state |-> "none", value |-> "none"]
createDefer == [defined |-> TRUE, state |-> "pending", value |-> "none"]
\* Defer.resolve: a promise settles once
Resolve(defer, v) ==
    IF defer.state = "pending" THEN [defer EXCEPT !.state = "resolved", !.value = v] ELSE defer

DefaultContainer == "IContainer.instance"
Injectors == {"", "custom"}
\* the middlewares an application registers: plain functions and factories
\* with a createMiddleware method
HostMiddlewares == {"fn", "factory"}
MvcMiddleware == "mvc"
TypeError == "TypeError"

\* lines 33-37: the state after construction; container is a declared field
\* that the constructor does not assign
Constructed == [pc |-> "constructed",
                startup |-> NoDefer,
                container |-> NoDefer,
                configuration |-> createDefer,
                excfg |-> FALSE,
                middlewares |-> <<MvcMiddleware>>,
                app |-> <<>>,
                registered |-> FALSE,
                thrown |-> "",
                calls |-> [useContainer |-> 0, build |-> 0, run |-> 0],
                runPromise |-> "none"]

\* lines 47-53: the body of useContainer; reading resolve off a container
\* field that is undefined throws a TypeError
useContainer(b, injector) ==
    LET c == IF b.container.defined THEN createDefer ELSE b.container
    IN  IF ~c.defined
        THEN [b EXCEPT !.thrown = TypeError]
        ELSE [b EXCEPT !.container = Resolve(c, IF injector # "" THEN injector
                                                ELSE DefaultContainer),
                       !.thrown = ""]

\* lines 64-103: useConfiguration with a configuration object, with the name
\* of a file that does not exist, or with nothing
useConfiguration(b, config) ==
    CASE config = "object" -> [b EXCEPT !.excfg = TRUE]
      [] config = "missingFile" -> b
      [] OTHER -> [b EXCEPT !.configuration = Resolve(@, "Configuration")]

\* lines 190-193
initIContainer(b) == [b EXCEPT !.registered = TRUE]

\* lines 199-211: a factory is replaced by what createMiddleware returns, and
\* the middlewares go to the app in the order of this.middlewares
setupMiddwares(b) ==
    [b EXCEPT !.app = @ \o [i \in 1..Len(b.middlewares) |->
                               IF b.middlewares[i] = "factory" THEN "created"
                               ELSE b.middlewares[i]]]

\* lines 195-197
loadController(b) == b

\* lines 143-164: build up to its return
build(b) ==
    LET b1 == useConfiguration([b EXCEPT !.startup = createDefer, !.thrown = ""], "")
        b2 == IF ~b1.container.defined THEN useContainer(b1, "") ELSE b1
    IN  IF b2.thrown # "" THEN [b2 EXCEPT !.pc = "buildThrew"]
        ELSE [b2 EXCEPT !.pc = "initIContainer"]

InitHost ==
    /\ thisUrl = <<>>
    /\ methodMaps = NoMaps
    /\ registry = BaseRegistry
    /\ container = BaseContainer
    /\ ctx = BaseCtx
    /\ decorator = Get
    /\ pc = "host"
    /\ Idle
    /\ builder = Constructed
    /\ pair = NoPair

HostFrame ==
    UNCHANGED <<pair, orders, chainOp, thisUrl, methodMaps, registry, container, ctx, decorator, meta,
                pc, calls, outcome, bound, fault, response, headersSet, rejection>>

\* use(middleware), lines 115-118
HostUse ==
    /\ builder.calls.build = 0
    /\ Len(builder.middlewares) <= MaxMiddlewares
    /\ \E m \in HostMiddlewares :
          builder' = [builder EXCEPT !.middlewares = Append(@, m), !.thrown = ""]
    /\ HostFrame

\* a call of useConfiguration by the application
HostUseConfiguration ==
    /\ builder.calls.build = 0
    /\ ~builder.excfg
    /\ \E config \in {"", "object", "missingFile"} :
          /\ config = "" => builder.configuration.state = "pending"
          /\ builder' = useConfiguration([builder EXCEPT !.thrown = ""], config)
    /\ HostFrame

\* a call of useContainer by the application
HostUseContainer ==
    /\ builder.calls.build = 0
    /\ builder.calls.useContainer < 1
    /\ \E injector \in Injectors :
          builder' = useContainer([builder EXCEPT !.calls.useContainer = @ + 1], injector)
    /\ HostFrame

\* a call of build()
HostBuild ==
    /\ builder.calls.build = 0
    /\ builder.calls.run = 0
    /\ builder' = build([builder EXCEPT !.calls.build = @ + 1])
    /\ HostFrame

\* a call of run(), lines 171-178: build() when there is no startup yet, and
\* then the wait for the startup promise; what build() throws rejects the
\* promise of run
HostRun ==
    /\ builder.calls.run = 0
    /\ LET b == [builder EXCEPT !.calls.run = @ + 1, !.thrown = ""]
           b1 == IF ~b.startup.defined THEN build([b EXCEPT !.calls.build = @ + 1]) ELSE b
       IN  builder' = [b1 EXCEPT !.runPromise = IF b1.thrown # "" THEN "rejected"
                                                 ELSE "pending"]
    /\ HostFrame

\* lines 153-161: the steps of the promise chain that build() sets up
\* behind line 152, one per then
StartupChain ==
    /\ builder.pc \in {"initIContainer", "setupMiddwares", "loadController"}
    /\ builder.configuration.state = "resolved"
    /\ ~builder.excfg
    /\ builder.container.state = "resolved"
    /\ builder' = CASE builder.pc = "initIContainer" ->
                         [initIContainer(builder) EXCEPT !.pc = "setupMiddwares"]
                    [] builder.pc = "setupMiddwares" ->
                         [setupMiddwares(builder) EXCEPT !.pc = "loadController"]
                    [] builder.pc = "loadController" ->
                         [loadController(builder) EXCEPT !.pc = "started",
                                                         !.startup = Resolve(@, "app")]
    /\ HostFrame

NextHost == HostUse \/ HostUseConfiguration \/ HostUseContainer \/ HostBuild \/ HostRun

SpecHost == InitHost /\ [][NextHost]_vars

\* C30 (as claimed): build() on a builder on which useContainer was never
\* called falls back to the default container and goes on to the startup
\* steps: it does not throw, the container promise is resolved with the
\* default container, and once startup has resolved the configuration is
\* registered and the app holds the middlewares in registration order, the
\* MVC context middleware first.
C30_BuildFallsBackToDefaultContainer ==
    (builder.calls.build = 1 /\ builder.calls.useContainer = 0)
        => /\ builder.thrown # TypeError
           /\ builder.pc # "buildThrew"
           /\ builder.container.state = "resolved"
           /\ builder.container.value = DefaultContainer
           /\ builder.startup.state = "resolved"
                 => /\ builder.registered
                    /\ builder.app = setupMiddwares([builder EXCEPT !.app = <<>>]).app
                    /\ builder.app[1] = MvcMiddleware

(***************************************************************************)
(* Two requests in flight on one ControllerRoute: each runs the synchronous *)
(* part of invoke up to line 151 in one step and goes on when the promise  *)
(* it awaits settles                                                       *)
(***************************************************************************)
Requests == {1, 2}
PairPaths == {<<"/", "a">>, <<"/", "a", "/", "4", "2">>, <<"/", "b">>}
PairBodies == {NoKeys, "name" :> "n1", "name" :> "n2"}
PairParams == {<<"Model">>, <<"String", "Model">>, <<"Number">>}

InitPair ==
    /\ thisUrl = <<"/", "u">>
    /\ methodMaps = [NoMaps EXCEPT ![Get] = <<<<RouteMeta(<<"/", "a">>, "h1", "")>>,
                                             <<RouteMeta(<<"/", "a", "/", ":", "i">>, "h2", "")>>>>]
    /\ \E params \in PairParams :
          registry = [BaseRegistry EXCEPT !.params = [h \in Handlers |-> params]]
    /\ \E single \in BOOLEAN, inst \in Instances :
          container = [BaseContainer EXCEPT !.singleton = single, !.instance = inst]
    /\ ctx = BaseCtx
    /\ decorator = Get
    /\ pc = "pair"
    /\ Idle
    /\ builder = NoBuilder
    /\ \E urls \in [Requests -> PairPaths], bodies \in [Requests -> PairBodies] :
          pair = [instance0 |-> container.instance,
                  req |-> [r \in Requests |->
                              [pc |-> "start", url |-> thisUrl \o urls[r], body |-> bodies[r],
                               meta |-> Undefined, bound |-> <<>>, status |-> 0,
                               response |-> <<>>]]]

PairFrame ==
    UNCHANGED <<builder, orders, chainOp, thisUrl, methodMaps, registry, ctx, decorator, meta,
                pc, calls, outcome, bound, fault, response, headersSet, rejection>>

\* what the handler of request r finds in its arguments: an instance that the
\* container shares is the object as it is now
Arguments(r) ==
    [k \in 1..Len(pair.req[r].bound) |->
        IF pair.req[r].bound[k].value.kind = "Model" /\ container.singleton
        THEN [pair.req[r].bound[k] EXCEPT !.value = InstanceValue(container.instance)]
        ELSE pair.req[r].bound[k]]

\* lines 137-151 up to the await: matching, the parameter list, createProvider
PairDispatch(r) ==
    /\ pair.req[r].pc = "start"
    /\ LET m == getRouteMetaData(pair.req[r].url, thisUrl, methodMaps, Get)
           params == HandlerParams(m.propertyKey)
       IN  IF m.defined /\ m.propertyKey # ""
           THEN /\ pair' = [pair EXCEPT
                       !.req[r].meta = m,
                       !.req[r].bound = createProvider(container, m, params, pair.req[r].url,
                                                       thisUrl, pair.req[r].body, registry.fields),
                       !.req[r].pc = "awaitInvoke"]
                /\ container' = ContainerAfterBind(container, params, pair.req[r].body,
                                                   registry.fields)
           ELSE /\ pair' = [pair EXCEPT !.req[r].status = NotFoundCode, !.req[r].pc = "done"]
                /\ UNCHANGED container
    /\ PairFrame

\* line 151: the handler's promise settles with an object made of the
\* arguments it holds; lines 163-166 put it into the body, and next() is called
PairHandlerSettles(r) ==
    /\ pair.req[r].pc = "awaitInvoke"
    /\ pair' = [pair EXCEPT !.req[r].response = Arguments(r), !.req[r].pc = "awaitNext"]
    /\ UNCHANGED container
    /\ PairFrame

\* the promise of next() settles
PairNextSettles(r) ==
    /\ pair.req[r].pc = "awaitNext"
    /\ pair' = [pair EXCEPT !.req[r].pc = "done"]
    /\ UNCHANGED container
    /\ PairFrame

NextPair == \E r \in Requests : PairDispatch(r) \/ PairHandlerSettles(r) \/ PairNextSettles(r)

SpecPair == InitPair /\ [][NextPair]_vars

\* the arguments of request r when no other request has run
Alone(r) ==
    createProvider([container EXCEPT !.instance = pair.instance0], pair.req[r].meta,
                   HandlerParams(pair.req[r].meta.propertyKey), pair.req[r].url, thisUrl,
                   pair.req[r].body, registry.fields)

\* C25 (as claimed): for two requests on one ControllerRoute whose steps
\* interleave at the await points, the bound arguments and the response of
\* each are those it gets when it runs alone.
C25_RequestsAreIndependent ==
    \A r \in Requests :
        pair.req[r].meta.defined
            => /\ pair.req[r].bound = Alone(r)
               /\ pair.req[r].pc = "awaitInvoke" => Arguments(r) = Alone(r)
               /\ pair.req[r].pc \in {"awaitNext", "done"} => pair.req[r].response = Alone(r)
====
